---------------------------- MODULE Spec2Model ----------------------------
(***************************************************************************)
(* WebSchematics: decoding of a schematic tag tree into a voxel grid       *)
(* (webschematics.js) and the synchronous prefix of render (renderer.js):  *)
(* scene set-up, grouping of the non-air voxels and the model requests.    *)
(*                                                                         *)
(* The repository holds two copies of webschematics.js: src/src/           *)
(* webschematics.js and src/unnamed/part_001.  They differ only in         *)
(* getBlocksFromSchematic (part_001 converts the signed byte to 0..255     *)
(* before the table lookup) and in createLegacyBlockMap (part_001 maps     *)
(* every id but 36).  The variable copy says which one the page loaded.    *)
(*                                                                         *)
(* Strings.  A JavaScript string is a sequence of tokens; a token is a     *)
(* TLA+ string standing for a run of characters that holds none of the     *)
(* delimiters the code searches for.  "minecraft:oak_stairs[facing=north]" *)
(* is <<"minecraft", ":", "oak_stairs", "[", "facing=", "north", "]">>.    *)
(* The delimiters ":", "[", "]", "," and the prefixes "waxed_",            *)
(* "unknown_", "data=", "facing=", ... are tokens of their own, so that    *)
(* indexOf, substring, split and startsWith act on token positions the     *)
(* way the code's calls act on character positions.                        *)
(*                                                                         *)
(* Values.  A number that may be undefined is [t, n] with t "number" or    *)
(* "undefined"; an array that may be undefined is [t, v] with t "array"    *)
(* or "undefined".                                                         *)
(***************************************************************************)
EXTENDS Integers, Sequences, FiniteSets, TLC

VARIABLES
    copy,            \* which copy of webschematics.js runs: "src" or "part_001"
    file,            \* the file handed to renderSchematic: what nbt.parse yields
    pc,              \* "called", "parsed", "rejected", "loading", "yielded",
                     \* "finished"
    nbtData,         \* the tag tree getNbtData resolved with
    error,           \* the error renderSchematic rejected with, or NoError
    blocks,          \* the grid passed to render: [built, cells[y][x][z]]
    skippedBlocks,   \* the builder's skippedBlocks array (what console.warn reports)
    renderCalls,     \* how many times render was invoked
    blockMap,        \* render's blockMap: groups in insertion order
    modelRequests,   \* render's modelPromises: one request per group, in order
    statsEvents,     \* the webschematics:stats events dispatched so far
    parentChildren,  \* number of canvases appended to the caller's parent
    listeners,       \* number of resize listeners added to window
    chunkSize,       \* render's CHUNK_SIZE
    mergeFault,      \* which merge throws in this run: "none", "pairwise" (the
                     \* try of mergeTwoGeometries), "outer" (the try of
                     \* mergeGeometries)
    loadedModels,    \* what each modelPromise resolved with, by request
    settleOrder,     \* the requests in the order in which they settled
    renderSkipped,   \* render's skippedBlocks object: [blockName, count] entries
    modelCache,      \* render's modelCache: [blockKey, model] entries
    geometryCache,   \* the keys of render's geometryCache and materialCache
    scene,           \* the objects added to the scene, in order
    meshCount,       \* render's meshCount
    vertexCount,     \* render's vertexCount
    faceCount,       \* render's faceCount, in thirds of a face
    chunkStart       \* the i of the loop of line 172

\* what render writes after its first suspension
renderVars == <<loadedModels, settleOrder, renderSkipped, modelCache, geometryCache,
                scene, meshCount, vertexCount, faceCount, chunkStart>>

vars == <<copy, file, pc, nbtData, error, blocks, skippedBlocks, renderCalls,
          blockMap, modelRequests, statsEvents, parentChildren, listeners,
          chunkSize, mergeFault, renderVars>>

-----------------------------------------------------------------------------
(* Bounds of the model *)

\* Width, Height and Length range over 1..MaxDim
MaxDim == 2
\* a flat array is up to MaxShort elements shorter than Width*Height*Length
MaxShort == 1
\* render is also run with the chunk sizes 1..MaxChunk
MaxChunk == 2

-----------------------------------------------------------------------------
(* JavaScript values *)

Undefined == [t |-> "undefined", n |-> 0]
Num(n) == [t |-> "number", n |-> n]
IsNum(v) == v.t = "number"

UndefinedArray == [t |-> "undefined", v |-> <<>>]
Arr(s) == [t |-> "array", v |-> s]

\* arr[i] of a JavaScript array (0-based): undefined outside 0..length-1
ArrayGet(arr, i) ==
    IF i >= 0 /\ i < Len(arr) THEN Num(arr[i + 1]) ELSE Undefined

\* `${n}` of a non-negative integer: its decimal digits
RECURSIVE Digits(_)
Digits(n) ==
    LET d == <<"0", "1", "2", "3", "4", "5", "6", "7", "8", "9">>[(n % 10) + 1]
    IN  IF n < 10 THEN <<d>> ELSE Digits(n \div 10) \o <<d>>

\* `${v}` of a number or undefined (template literal conversion)
TemplateString(v) ==
    IF ~IsNum(v) THEN <<"undefined">>
    ELSE IF v.n < 0 THEN <<"-">> \o Digits(-v.n)
    ELSE Digits(v.n)

\* String.prototype.indexOf for a one-token needle: 0-based, -1 when absent
indexOf(s, tok) ==
    IF \E i \in 1..Len(s) : s[i] = tok
    THEN (CHOOSE i \in 1..Len(s) : s[i] = tok /\ \A j \in 1..(i - 1) : s[j] # tok) - 1
    ELSE -1

includes(s, tok) == indexOf(s, tok) # -1

\* String.prototype.substring(a, b): arguments clamped to 0..length, swapped
\* when a > b
substring(s, a, b) ==
    LET clamp(k) == IF k < 0 THEN 0 ELSE IF k > Len(s) THEN Len(s) ELSE k
        lo == IF clamp(a) <= clamp(b) THEN clamp(a) ELSE clamp(b)
        hi == IF clamp(a) <= clamp(b) THEN clamp(b) ELSE clamp(a)
    IN  SubSeq(s, lo + 1, hi)

\* String.prototype.substring(a): to the end of the string
substringFrom(s, a) == substring(s, a, Len(s))

\* String.prototype.startsWith
startsWith(s, prefix) ==
    Len(s) >= Len(prefix) /\ SubSeq(s, 1, Len(prefix)) = prefix

\* String.prototype.split for a one-token separator: the pieces between the
\* separators, in order; the empty string splits into one empty piece
RECURSIVE split(_, _)
split(s, sep) ==
    LET i == indexOf(s, sep)
    IN  IF i = -1 THEN <<s>>
        ELSE <<substring(s, 0, i)>> \o split(substringFrom(s, i + 1), sep)

-----------------------------------------------------------------------------
(* Names *)

\* 'minecraft:<id>'
mc(id) == <<"minecraft", ":", id>>

\* "minecraft:air"
Air == mc("air")

\* `minecraft:unknown_${blockId}`
UnknownName(blockId) == <<"minecraft", ":", "unknown_">> \o TemplateString(blockId)

-----------------------------------------------------------------------------
(* The tag tree.  A named child of nbtData.value is [present, hasValue,    *)
(* value]: absent (nbtData.value.X is undefined), present without a value  *)
(* (X.value is undefined) or present with its value.                       *)

Field(v) == [present |-> TRUE, hasValue |-> TRUE, value |-> v]
NoValue(v) == [present |-> TRUE, hasValue |-> FALSE, value |-> v]
Absent(v) == [present |-> FALSE, hasValue |-> FALSE, value |-> v]

\* !obj || obj.value === undefined
MissingOrInvalid(obj) == ~obj.present \/ ~obj.hasValue

\* what a builder or renderSchematic ends with: a grid, or a thrown error
NoError == "none"
NoCells == <<>>
Thrown(msg) == [ok |-> FALSE, error |-> msg, cells |-> NoCells, skipped |-> <<>>]
Returned(cells, skipped) ==
    [ok |-> TRUE, error |-> NoError, cells |-> cells, skipped |-> skipped]

\* the coordinates <<y, x, z>> in the order of the nested loops: y outer,
\* x middle, z inner
ScanOrder(width, height, length) ==
    [k \in 1..(width * height * length) |->
        <<(k - 1) \div (width * length),
          ((k - 1) \div length) % width,
          (k - 1) % length>>]

\* the index mutated: x and z exchanged
LinearIndex_swapped(x, y, z, width, length) == z + x * length + y * width * length

\* x + z * width + y * width * length
LinearIndex(x, y, z, width, length) == x + z * width + y * width * length

-----------------------------------------------------------------------------
(* getBlockData: the palette is the sequence of Object.entries(palette),   *)
(* each entry [key, value]                                                 *)

\* the properties mutated: the items in reverse order
KeyProperties_reversed(key) ==
    LET p == split(substring(key, indexOf(key, "[") + 1, indexOf(key, "]")), ",")
    IN  [i \in 1..Len(p) |-> p[Len(p) + 1 - i]]

\* key.substring(key.indexOf("[") + 1, key.indexOf("]")).split(",")
KeyProperties(key) ==
    split(substring(key, indexOf(key, "[") + 1, indexOf(key, "]")), ",")

\* the value returned for a matching key
DescriptorOfKey(key) ==
    IF includes(key, "[")
    THEN [name |-> substring(key, 0, indexOf(key, "[")),
          properties |-> Arr(KeyProperties(key))]
    ELSE [name |-> key, properties |-> UndefinedArray]

\* getBlockData mutated: an unmatched id resolves to the first palette entry
getBlockData_firstEntry(palette, blockId) ==
    LET hit == {i \in 1..Len(palette) : IsNum(blockId) /\ palette[i].value = blockId.n}
    IN  IF hit # {}
        THEN DescriptorOfKey(palette[CHOOSE i \in hit : \A j \in hit : i <= j].key)
        ELSE IF Len(palette) > 0 THEN DescriptorOfKey(palette[1].key)
        ELSE [name |-> Air, properties |-> UndefinedArray]

getBlockData(palette, blockId) ==
    LET hit == {i \in 1..Len(palette) : IsNum(blockId) /\ palette[i].value = blockId.n}
    IN  IF hit # {}
        THEN DescriptorOfKey(palette[CHOOSE i \in hit : \A j \in hit : i <= j].key)
        ELSE [name |-> Air, properties |-> UndefinedArray]

-----------------------------------------------------------------------------
(* getBlocksFromSchem *)

getBlocksFromSchem(nbt) ==
    LET width == nbt.value.Width.value
        height == nbt.value.Height.value
        length == nbt.value.Length.value
        paletteObj == nbt.value.Palette
        blockDataObj == nbt.value.BlockData
        palette == paletteObj.value
        blockData == blockDataObj.value
        cell(y, x, z) ==
            getBlockData(palette, ArrayGet(blockData, LinearIndex(x, y, z, width, length)))
    IN  IF MissingOrInvalid(paletteObj)
        THEN Thrown("Invalid NBT structure: Palette field missing or invalid")
        ELSE IF MissingOrInvalid(blockDataObj)
        THEN Thrown("Invalid NBT structure: BlockData field missing or invalid")
        ELSE Returned(
                [y \in 0..(height - 1) |-> [x \in 0..(width - 1) |->
                    [z \in 0..(length - 1) |-> cell(y, x, z)]]],
                \* getBlockData never returns undefined: nothing is pushed
                <<>>)

-----------------------------------------------------------------------------
(* createLegacyBlockMap: src/src/webschematics.js, then part_001 *)

createLegacyBlockMap ==
    (0 :> mc("air")) @@ (1 :> mc("stone")) @@ (2 :> mc("grass_block")) @@ (3 :> mc("dirt")) @@
    (4 :> mc("cobblestone")) @@ (5 :> mc("oak_planks")) @@ (6 :> mc("oak_sapling")) @@
    (7 :> mc("bedrock")) @@ (8 :> mc("water")) @@ (9 :> mc("water")) @@ (10 :> mc("lava")) @@
    (11 :> mc("lava")) @@ (12 :> mc("sand")) @@ (13 :> mc("gravel")) @@
    (14 :> mc("gold_ore")) @@ (15 :> mc("iron_ore")) @@ (16 :> mc("coal_ore")) @@
    (17 :> mc("oak_log")) @@ (18 :> mc("oak_leaves")) @@ (20 :> mc("glass")) @@
    (21 :> mc("lapis_ore")) @@ (22 :> mc("lapis_block")) @@ (24 :> mc("sandstone")) @@
    (35 :> mc("white_wool")) @@ (41 :> mc("gold_block")) @@ (42 :> mc("iron_block")) @@
    (43 :> mc("stone_slab")) @@ (44 :> mc("stone_slab")) @@ (45 :> mc("bricks")) @@
    (46 :> mc("tnt")) @@ (47 :> mc("bookshelf")) @@ (48 :> mc("mossy_cobblestone")) @@
    (49 :> mc("obsidian")) @@ (50 :> mc("torch")) @@ (51 :> mc("fire")) @@
    (52 :> mc("spawner")) @@ (53 :> mc("oak_stairs")) @@ (54 :> mc("chest")) @@
    (56 :> mc("diamond_ore")) @@ (57 :> mc("diamond_block")) @@ (58 :> mc("crafting_table")) @@
    (59 :> mc("wheat")) @@ (60 :> mc("farmland")) @@ (61 :> mc("furnace")) @@
    (64 :> mc("oak_door")) @@ (65 :> mc("ladder")) @@ (67 :> mc("cobblestone_stairs")) @@
    (71 :> mc("iron_door")) @@ (73 :> mc("redstone_ore")) @@ (78 :> mc("snow")) @@
    (79 :> mc("ice")) @@ (80 :> mc("snow_block")) @@ (81 :> mc("cactus")) @@
    (82 :> mc("clay")) @@ (85 :> mc("oak_fence")) @@ (89 :> mc("glowstone")) @@
    (95 :> mc("white_stained_glass")) @@ (98 :> mc("stone_bricks")) @@
    (102 :> mc("glass_pane")) @@ (103 :> mc("melon")) @@ (126 :> mc("oak_slab"))

createLegacyBlockMap_part_001 ==
    (0 :> mc("air")) @@ (1 :> mc("stone")) @@ (2 :> mc("grass_block")) @@ (3 :> mc("dirt")) @@
    (4 :> mc("cobblestone")) @@ (5 :> mc("oak_planks")) @@ (6 :> mc("oak_sapling")) @@
    (7 :> mc("bedrock")) @@ (8 :> mc("water")) @@ (9 :> mc("water")) @@ (10 :> mc("lava")) @@
    (11 :> mc("lava")) @@ (12 :> mc("sand")) @@ (13 :> mc("gravel")) @@
    (14 :> mc("gold_ore")) @@ (15 :> mc("iron_ore")) @@ (16 :> mc("coal_ore")) @@
    (17 :> mc("oak_log")) @@ (18 :> mc("oak_leaves")) @@ (19 :> mc("sponge")) @@
    (20 :> mc("glass")) @@ (21 :> mc("lapis_ore")) @@ (22 :> mc("lapis_block")) @@
    (23 :> mc("dispenser")) @@ (24 :> mc("sandstone")) @@ (25 :> mc("note_block")) @@
    (26 :> mc("red_bed")) @@ (27 :> mc("powered_rail")) @@ (28 :> mc("detector_rail")) @@
    (29 :> mc("sticky_piston")) @@ (30 :> mc("cobweb")) @@ (31 :> mc("grass")) @@
    (32 :> mc("dead_bush")) @@ (33 :> mc("piston")) @@ (34 :> mc("piston_head")) @@
    (35 :> mc("white_wool")) @@ (37 :> mc("dandelion")) @@ (38 :> mc("poppy")) @@
    (39 :> mc("brown_mushroom")) @@ (40 :> mc("red_mushroom")) @@ (41 :> mc("gold_block")) @@
    (42 :> mc("iron_block")) @@ (43 :> mc("stone_slab")) @@ (44 :> mc("stone_slab")) @@
    (45 :> mc("bricks")) @@ (46 :> mc("tnt")) @@ (47 :> mc("bookshelf")) @@
    (48 :> mc("mossy_cobblestone")) @@ (49 :> mc("obsidian")) @@ (50 :> mc("torch")) @@
    (51 :> mc("fire")) @@ (52 :> mc("spawner")) @@ (53 :> mc("oak_stairs")) @@
    (54 :> mc("chest")) @@ (55 :> mc("redstone_wire")) @@ (56 :> mc("diamond_ore")) @@
    (57 :> mc("diamond_block")) @@ (58 :> mc("crafting_table")) @@ (59 :> mc("wheat")) @@
    (60 :> mc("farmland")) @@ (61 :> mc("furnace")) @@ (62 :> mc("furnace")) @@
    (63 :> mc("oak_sign")) @@ (64 :> mc("oak_door")) @@ (65 :> mc("ladder")) @@
    (66 :> mc("rail")) @@ (67 :> mc("cobblestone_stairs")) @@ (68 :> mc("oak_wall_sign")) @@
    (69 :> mc("lever")) @@ (70 :> mc("stone_pressure_plate")) @@ (71 :> mc("iron_door")) @@
    (72 :> mc("oak_pressure_plate")) @@ (73 :> mc("redstone_ore")) @@
    (74 :> mc("redstone_ore")) @@ (75 :> mc("redstone_torch")) @@
    (76 :> mc("redstone_torch")) @@ (77 :> mc("stone_button")) @@ (78 :> mc("snow")) @@
    (79 :> mc("ice")) @@ (80 :> mc("snow_block")) @@ (81 :> mc("cactus")) @@
    (82 :> mc("clay")) @@ (83 :> mc("sugar_cane")) @@ (84 :> mc("jukebox")) @@
    (85 :> mc("oak_fence")) @@ (86 :> mc("carved_pumpkin")) @@ (87 :> mc("netherrack")) @@
    (88 :> mc("soul_sand")) @@ (89 :> mc("glowstone")) @@ (90 :> mc("nether_portal")) @@
    (91 :> mc("jack_o_lantern")) @@ (92 :> mc("cake")) @@ (93 :> mc("repeater")) @@
    (94 :> mc("repeater")) @@ (95 :> mc("white_stained_glass")) @@
    (96 :> mc("oak_trapdoor")) @@ (97 :> mc("infested_stone")) @@ (98 :> mc("stone_bricks")) @@
    (99 :> mc("brown_mushroom_block")) @@ (100 :> mc("red_mushroom_block")) @@
    (101 :> mc("iron_bars")) @@ (102 :> mc("glass_pane")) @@ (103 :> mc("melon")) @@
    (104 :> mc("pumpkin_stem")) @@ (105 :> mc("melon_stem")) @@ (106 :> mc("vine")) @@
    (107 :> mc("oak_fence_gate")) @@ (108 :> mc("brick_stairs")) @@
    (109 :> mc("stone_brick_stairs")) @@ (110 :> mc("mycelium")) @@ (111 :> mc("lily_pad")) @@
    (112 :> mc("nether_bricks")) @@ (113 :> mc("nether_brick_fence")) @@
    (114 :> mc("nether_brick_stairs")) @@ (115 :> mc("nether_wart")) @@
    (116 :> mc("enchanting_table")) @@ (117 :> mc("brewing_stand")) @@
    (118 :> mc("cauldron")) @@ (119 :> mc("end_portal")) @@ (120 :> mc("end_portal_frame")) @@
    (121 :> mc("end_stone")) @@ (122 :> mc("dragon_egg")) @@ (123 :> mc("redstone_lamp")) @@
    (124 :> mc("redstone_lamp")) @@ (125 :> mc("oak_slab")) @@ (126 :> mc("oak_slab")) @@
    (127 :> mc("cocoa")) @@ (128 :> mc("sandstone_stairs")) @@ (129 :> mc("emerald_ore")) @@
    (130 :> mc("ender_chest")) @@ (131 :> mc("tripwire_hook")) @@ (132 :> mc("tripwire")) @@
    (133 :> mc("emerald_block")) @@ (134 :> mc("spruce_stairs")) @@
    (135 :> mc("birch_stairs")) @@ (136 :> mc("jungle_stairs")) @@
    (137 :> mc("command_block")) @@ (138 :> mc("beacon")) @@ (139 :> mc("cobblestone_wall")) @@
    (140 :> mc("flower_pot")) @@ (141 :> mc("carrots")) @@ (142 :> mc("potatoes")) @@
    (143 :> mc("oak_button")) @@ (144 :> mc("skeleton_skull")) @@ (145 :> mc("anvil")) @@
    (146 :> mc("trapped_chest")) @@ (147 :> mc("light_weighted_pressure_plate")) @@
    (148 :> mc("heavy_weighted_pressure_plate")) @@ (149 :> mc("comparator")) @@
    (150 :> mc("comparator")) @@ (151 :> mc("daylight_detector")) @@
    (152 :> mc("redstone_block")) @@ (153 :> mc("quartz_ore")) @@ (154 :> mc("hopper")) @@
    (155 :> mc("quartz_block")) @@ (156 :> mc("quartz_stairs")) @@
    (157 :> mc("activator_rail")) @@ (158 :> mc("dropper")) @@
    (159 :> mc("white_terracotta")) @@ (160 :> mc("white_stained_glass_pane")) @@
    (161 :> mc("acacia_leaves")) @@ (162 :> mc("acacia_log")) @@
    (163 :> mc("acacia_stairs")) @@ (164 :> mc("dark_oak_stairs")) @@
    (165 :> mc("slime_block")) @@ (166 :> mc("barrier")) @@ (167 :> mc("iron_trapdoor")) @@
    (168 :> mc("prismarine")) @@ (169 :> mc("sea_lantern")) @@ (170 :> mc("hay_block")) @@
    (171 :> mc("white_carpet")) @@ (172 :> mc("terracotta")) @@ (173 :> mc("coal_block")) @@
    (174 :> mc("packed_ice")) @@ (175 :> mc("sunflower")) @@ (176 :> mc("white_banner")) @@
    (177 :> mc("white_wall_banner")) @@ (178 :> mc("daylight_detector")) @@
    (179 :> mc("red_sandstone")) @@ (180 :> mc("red_sandstone_stairs")) @@
    (181 :> mc("red_sandstone_slab")) @@ (182 :> mc("red_sandstone_slab")) @@
    (183 :> mc("spruce_fence_gate")) @@ (184 :> mc("birch_fence_gate")) @@
    (185 :> mc("jungle_fence_gate")) @@ (186 :> mc("dark_oak_fence_gate")) @@
    (187 :> mc("acacia_fence_gate")) @@ (188 :> mc("spruce_fence")) @@
    (189 :> mc("birch_fence")) @@ (190 :> mc("jungle_fence")) @@
    (191 :> mc("dark_oak_fence")) @@ (192 :> mc("acacia_fence")) @@
    (193 :> mc("spruce_door")) @@ (194 :> mc("birch_door")) @@ (195 :> mc("jungle_door")) @@
    (196 :> mc("acacia_door")) @@ (197 :> mc("dark_oak_door")) @@ (198 :> mc("end_rod")) @@
    (199 :> mc("chorus_plant")) @@ (200 :> mc("chorus_flower")) @@
    (201 :> mc("purpur_block")) @@ (202 :> mc("purpur_pillar")) @@
    (203 :> mc("purpur_stairs")) @@ (204 :> mc("purpur_slab")) @@ (205 :> mc("purpur_slab")) @@
    (206 :> mc("end_stone_bricks")) @@ (207 :> mc("beetroots")) @@ (208 :> mc("grass_path")) @@
    (209 :> mc("end_gateway")) @@ (210 :> mc("repeating_command_block")) @@
    (211 :> mc("chain_command_block")) @@ (212 :> mc("frosted_ice")) @@
    (213 :> mc("magma_block")) @@ (214 :> mc("nether_wart_block")) @@
    (215 :> mc("red_nether_bricks")) @@ (216 :> mc("bone_block")) @@
    (217 :> mc("structure_void")) @@ (218 :> mc("observer")) @@
    (219 :> mc("white_shulker_box")) @@ (220 :> mc("orange_shulker_box")) @@
    (221 :> mc("magenta_shulker_box")) @@ (222 :> mc("light_blue_shulker_box")) @@
    (223 :> mc("yellow_shulker_box")) @@ (224 :> mc("lime_shulker_box")) @@
    (225 :> mc("pink_shulker_box")) @@ (226 :> mc("gray_shulker_box")) @@
    (227 :> mc("light_gray_shulker_box")) @@ (228 :> mc("cyan_shulker_box")) @@
    (229 :> mc("purple_shulker_box")) @@ (230 :> mc("blue_shulker_box")) @@
    (231 :> mc("brown_shulker_box")) @@ (232 :> mc("green_shulker_box")) @@
    (233 :> mc("red_shulker_box")) @@ (234 :> mc("black_shulker_box")) @@
    (235 :> mc("white_glazed_terracotta")) @@ (236 :> mc("orange_glazed_terracotta")) @@
    (237 :> mc("magenta_glazed_terracotta")) @@ (238 :> mc("light_blue_glazed_terracotta")) @@
    (239 :> mc("yellow_glazed_terracotta")) @@ (240 :> mc("lime_glazed_terracotta")) @@
    (241 :> mc("pink_glazed_terracotta")) @@ (242 :> mc("gray_glazed_terracotta")) @@
    (243 :> mc("light_gray_glazed_terracotta")) @@ (244 :> mc("cyan_glazed_terracotta")) @@
    (245 :> mc("purple_glazed_terracotta")) @@ (246 :> mc("blue_glazed_terracotta")) @@
    (247 :> mc("brown_glazed_terracotta")) @@ (248 :> mc("green_glazed_terracotta")) @@
    (249 :> mc("red_glazed_terracotta")) @@ (250 :> mc("black_glazed_terracotta")) @@
    (251 :> mc("concrete")) @@ (252 :> mc("concrete_powder")) @@
    (253 :> mc("structure_block")) @@ (254 :> mc("structure_block")) @@ (255 :> mc("air"))

-----------------------------------------------------------------------------
(* getBlocksFromSchematic *)

\* the name mutated: an id the table lacks resolves to air
LegacyName_air(map, blockId) ==
    IF IsNum(blockId) /\ blockId.n \in DOMAIN map
    THEN map[blockId.n]
    ELSE Air

\* legacyBlockMap[blockId] || `minecraft:unknown_${blockId}`
LegacyName(map, blockId) ==
    IF IsNum(blockId) /\ blockId.n \in DOMAIN map
    THEN map[blockId.n]
    ELSE UnknownName(blockId)

\* the properties mutated: data= also for a zero Data value
LegacyProperties_always(blockData) ==
    IF IsNum(blockData)
    THEN Arr(<< <<"data=">> \o TemplateString(blockData) >>)
    ELSE UndefinedArray

\* blockData > 0 ? [`data=${blockData}`] : undefined
LegacyProperties(blockData) ==
    IF IsNum(blockData) /\ blockData.n > 0
    THEN Arr(<< <<"data=">> \o TemplateString(blockData) >>)
    ELSE UndefinedArray

\* dataObj && dataObj.value ? dataObj.value : null, then
\* dataArray ? dataArray[index] : 0
LegacyData(dataObj, index) ==
    IF dataObj.present /\ dataObj.hasValue
    THEN ArrayGet(dataObj.value, index)
    ELSE Num(0)

\* the ids pushed to skippedBlocks: ids and names list, in scan order, the id
\* and the name of every voxel
SkippedIn(ids, names) ==
    LET unknown == SelectSeq([k \in 1..Len(ids) |-> k],
            LAMBDA k : startsWith(names[k], <<"minecraft", ":", "unknown_">>))
    IN  [i \in 1..Len(unknown) |-> ids[unknown[i]]]

\* the block object stored in the grid
LegacyDescriptor(map, blockId, blockData) ==
    [name |-> LegacyName(map, blockId), properties |-> LegacyProperties(blockData)]

\* part_001, lines 200-205: if (blockId < 0) blockId = blockId + 256;
\* blockId = blockId & 0xFF.  undefined < 0 is false and undefined & 0xFF is 0.
ToUnsignedByte(raw) ==
    IF ~IsNum(raw) THEN Num(0)
    ELSE Num((IF raw.n < 0 THEN raw.n + 256 ELSE raw.n) % 256)

\* the id a copy looks up for the array element raw: src/src/webschematics.js
\* line 199 takes the element as it is, part_001 converts it
LegacyId(cp, raw) == IF cp = "src" THEN raw ELSE ToUnsignedByte(raw)

\* the table of a copy
LegacyTable(cp) ==
    IF cp = "src" THEN createLegacyBlockMap ELSE createLegacyBlockMap_part_001

\* getBlocksFromSchematic of the copy cp
getBlocksFromSchematic(cp, nbt) ==
    LET width == nbt.value.Width.value
        height == nbt.value.Height.value
        length == nbt.value.Length.value
        blocksObj == nbt.value.Blocks
        dataObj == nbt.value.Data
        legacyBlockMap == LegacyTable(cp)
        index(c) == LinearIndex(c[2], c[1], c[3], width, length)
        blockId(c) == LegacyId(cp, ArrayGet(blocksObj.value, index(c)))
        blockName(c) == LegacyName(legacyBlockMap, blockId(c))
        cell(c) == LegacyDescriptor(legacyBlockMap, blockId(c),
                                    LegacyData(dataObj, index(c)))
    IN  IF MissingOrInvalid(blocksObj)
        THEN Thrown("Invalid NBT structure: Blocks field missing or invalid")
        ELSE Returned(
                [y \in 0..(height - 1) |-> [x \in 0..(width - 1) |->
                    [z \in 0..(length - 1) |-> cell(<<y, x, z>>)]]],
                LET scan == ScanOrder(width, height, length)
                IN  SkippedIn([k \in 1..Len(scan) |-> blockId(scan[k])],
                              [k \in 1..Len(scan) |-> blockName(scan[k])]))

-----------------------------------------------------------------------------
(* renderSchematic, lines 11-48: the checks and the choice of the decoder  *)

Decode(cp, nbt) ==
    IF nbt.isNull \/ ~nbt.hasValue
    THEN Thrown("Invalid NBT structure: missing value property")
    ELSE IF MissingOrInvalid(nbt.value.Width)
    THEN Thrown("Invalid NBT structure: Width field missing or invalid")
    ELSE IF MissingOrInvalid(nbt.value.Height)
    THEN Thrown("Invalid NBT structure: Height field missing or invalid")
    ELSE IF MissingOrInvalid(nbt.value.Length)
    THEN Thrown("Invalid NBT structure: Length field missing or invalid")
    ELSE LET hasPalette == nbt.value.Palette.present
             hasBlocks == nbt.value.Blocks.present
         IN  IF hasPalette
             THEN getBlocksFromSchem(nbt)
             ELSE IF hasBlocks
             THEN getBlocksFromSchematic(cp, nbt)
             ELSE Thrown("Unknown schematic format: missing both Palette/BlockData and Blocks fields")

\* whether line 50, await render(...), is reached, mutated: render is invoked
\* whatever the decoder did
RenderReached_always(r) == TRUE

\* line 50 is inside the try block, after the decoder: it is reached only
\* when nothing was thrown
RenderReached(r) == r.ok

-----------------------------------------------------------------------------
(* render, lines 17-142: everything render does before it first suspends   *)

\* the loops of lines 79-81 mutated: x outer, y middle, z inner
GridScan_xOuter(cells) ==
    LET height == Cardinality(DOMAIN cells)
        width == IF height = 0 THEN 0 ELSE Cardinality(DOMAIN cells[0])
        length == IF width = 0 THEN 0 ELSE Cardinality(DOMAIN cells[0][0])
    IN  [k \in 1..(width * height * length) |->
            <<((k - 1) \div length) % height,
              (k - 1) \div (height * length),
              (k - 1) % length>>]

\* the coordinates of the loops of lines 79-81, which run over blocks.length,
\* blocks[y].length and blocks[y][x].length
GridScan(cells) ==
    LET height == Cardinality(DOMAIN cells)
        width == IF height = 0 THEN 0 ELSE Cardinality(DOMAIN cells[0])
        length == IF width = 0 THEN 0 ELSE Cardinality(DOMAIN cells[0][0])
    IN  ScanOrder(width, height, length)

\* lines 89-94 mutated: waxed_ is kept
NormalizedName_keepsWaxed(id) == substringFrom(id, indexOf(id, ":") + 1)

\* lines 89-94: the namespace and a leading waxed_ removed.  "waxed_" is one
\* token, so substring(6) drops one token.
NormalizedName(id) ==
    LET blockName == substringFrom(id, indexOf(id, ":") + 1)
    IN  IF startsWith(blockName, <<"waxed_">>)
        THEN substringFrom(blockName, 1)
        ELSE blockName

\* block.properties || []
PropertiesOrEmpty(properties) ==
    IF properties.t = "array" THEN properties.v ELSE <<>>

\* JSON.stringify of an array of strings: ["p1","p2"]
RECURSIVE JSONItems(_)
JSONItems(properties) ==
    IF Len(properties) = 0 THEN <<>>
    ELSE <<"\"">> \o Head(properties) \o <<"\"">>
         \o (IF Len(properties) > 1 THEN <<",">> ELSE <<>>)
         \o JSONItems(Tail(properties))

JSONstringify(properties) == <<"[">> \o JSONItems(properties) \o <<"]">>

\* `${blockName}_${JSON.stringify(properties)}`
BlockKey(blockName, properties) ==
    blockName \o <<"_">> \o JSONstringify(properties)

\* position of the group with this key in blockMap, 0 when blockMap has none
GroupIndex(map, key) ==
    IF \E i \in 1..Len(map) : map[i].blockKey = key
    THEN CHOOSE i \in 1..Len(map) : map[i].blockKey = key
    ELSE 0

\* lines 82-109 mutated: air is grouped like any other block
CollectOne_groupsAir(map, cells, c) ==
    LET block == cells[c[1]][c[2]][c[3]]
        blockName == NormalizedName(block.name)
        properties == PropertiesOrEmpty(block.properties)
        blockKey == BlockKey(blockName, properties)
        pos == [x |-> c[2], y |-> c[1], z |-> c[3]]
        at == GroupIndex(map, blockKey)
    IN  IF at = 0
        THEN Append(map, [blockKey |-> blockKey, blockName |-> blockName,
                          properties |-> properties, positions |-> <<pos>>])
        ELSE [map EXCEPT ![at].positions = Append(@, pos)]

\* lines 82-109 mutated: the position is pushed only when the group is made
CollectOne_firstOnly(map, cells, c) ==
    LET block == cells[c[1]][c[2]][c[3]]
        blockName == NormalizedName(block.name)
        properties == PropertiesOrEmpty(block.properties)
        blockKey == BlockKey(blockName, properties)
        pos == [x |-> c[2], y |-> c[1], z |-> c[3]]
    IN  IF block.name = Air \/ GroupIndex(map, blockKey) # 0 THEN map
        ELSE Append(map, [blockKey |-> blockKey, blockName |-> blockName,
                          properties |-> properties, positions |-> <<pos>>])

\* lines 82-109 for one coordinate <<y, x, z>>
CollectOne(map, cells, c) ==
    LET block == cells[c[1]][c[2]][c[3]]
        id == block.name
        blockName == NormalizedName(id)
        properties == PropertiesOrEmpty(block.properties)
        blockKey == BlockKey(blockName, properties)
        pos == [x |-> c[2], y |-> c[1], z |-> c[3]]
        at == GroupIndex(map, blockKey)
    IN  IF id = Air THEN map
        ELSE IF at = 0
        THEN Append(map, [blockKey |-> blockKey, blockName |-> blockName,
                          properties |-> properties, positions |-> <<pos>>])
        ELSE [map EXCEPT ![at].positions = Append(@, pos)]

\* lines 79-112: the grouping pass
\* after[k] is blockMap after k cells of the scan; each step takes the map
\* of the step before as a value
CollectBlocks(map, cells, scan) ==
    LET after[k \in 0..Len(scan)] ==
            IF k = 0 THEN map
            ELSE CHOOSE next \in {CollectOne(before, cells, scan[k]) :
                                    before \in {after[k - 1]}} : TRUE
    IN  after[Len(scan)]

\* blocks.flat(2).filter(b => b && b.name !== 'minecraft:air').length
NonAirCount(cells) ==
    LET scan == GridScan(cells)
    IN  Cardinality({k \in 1..Len(scan) :
            cells[scan[k][1]][scan[k][2]][scan[k][3]].name # Air})

\* reduce((sum, b) => sum + b.positions.length, 0)
RECURSIVE TotalPositions(_)
TotalPositions(map) ==
    IF Len(map) = 0 THEN 0
    ELSE Len(Head(map).positions) + TotalPositions(Tail(map))

\* lines 125-142: one loadModel request per group, in the order of blockMap
ModelRequests(map) ==
    [i \in 1..Len(map) |->
        [blockKey |-> map[i].blockKey,
         name |-> <<"block/">> \o map[i].blockName,
         properties |-> map[i].properties]]

-----------------------------------------------------------------------------
(* Geometry.  A BufferGeometry is [position, normal, uv, index]; each is     *)
(* Arr(items) or UndefinedArray (the attribute, or the index, is not set).   *)
(* A vertex is <<x, y, z>>.  Lengths are in half blocks, so that the +0.5 of *)
(* applyTransformations is +1 and a grid coordinate n is Scaled(n).          *)
(* clone() copies a value and is not written.                                *)

Scaled(n) == 2 * n

\* attribute ? its items : nothing (the loops of lines 405-436)
ItemsOf(attribute) == IF attribute.t = "array" THEN attribute.v ELSE <<>>

\* geo.index.getX(i) + offset for every i
OffsetIndices(index, offset) == [i \in 1..Len(index) |-> index[i] + offset]

\* the index of the result mutated: the second geometry's indices are not offset
MergedIndex_noOffset(geo1, geo2) ==
    IF geo1.index.t = "array" /\ geo2.index.t = "array"
    THEN Arr(geo1.index.v \o geo2.index.v)
    ELSE IF geo1.index.t = "array" THEN geo1.index
    ELSE geo2.index

\* lines 447-471: the index of the result
MergedIndex(geo1, geo2) ==
    LET offset == IF geo1.position.t = "array" THEN Len(geo1.position.v) ELSE 0
    IN  IF geo1.index.t = "array" /\ geo2.index.t = "array"
        THEN Arr(geo1.index.v \o OffsetIndices(geo2.index.v, offset))
        ELSE IF geo1.index.t = "array" THEN geo1.index
        ELSE IF geo2.index.t = "array" THEN Arr(OffsetIndices(geo2.index.v, offset))
        ELSE UndefinedArray

\* mergeTwoGeometries, lines 388-478: the merged geometry, or geo1 when the
\* try block throws (the catch of lines 474-477)
mergeTwoGeometries(geo1, geo2) ==
    LET positions == ItemsOf(geo1.position) \o ItemsOf(geo2.position)
        normals == ItemsOf(geo1.normal) \o ItemsOf(geo2.normal)
        uvs == ItemsOf(geo1.uv) \o ItemsOf(geo2.uv)
    IN  IF mergeFault = "pairwise" THEN geo1
        ELSE [position |-> Arr(positions),
              normal |-> IF Len(normals) > 0 THEN Arr(normals) ELSE UndefinedArray,
              uv |-> IF Len(uvs) > 0 THEN Arr(uvs) ELSE UndefinedArray,
              index |-> MergedIndex(geo1, geo2)]

\* translateGeometry mutated: every vertex moved by x alone
translateGeometry_xOnly(geometry, x, y, z) ==
    IF geometry.position.t # "array" THEN geometry
    ELSE [geometry EXCEPT !.position =
            Arr([i \in 1..Len(geometry.position.v) |->
                    <<geometry.position.v[i][1] + x,
                      geometry.position.v[i][2],
                      geometry.position.v[i][3]>>])]

\* translateGeometry: every vertex moved by (x, y, z); a geometry without a
\* position attribute is returned as it is
translateGeometry(geometry, x, y, z) ==
    IF geometry.position.t # "array" THEN geometry
    ELSE [geometry EXCEPT !.position =
            Arr([i \in 1..Len(geometry.position.v) |->
                    <<geometry.position.v[i][1] + x,
                      geometry.position.v[i][2] + y,
                      geometry.position.v[i][3] + z>>])]

\* new THREE.Mesh(geometry, material): at the origin, not rotated.  blockKey
\* is bookkeeping: the group the mesh was made for.
Mesh(geometry, material, blockKey) ==
    [kind |-> "mesh", geometry |-> geometry, material |-> material,
     position |-> <<0, 0, 0>>, rotation |-> <<0, 0, 0>>, blockKey |-> blockKey]

\* the mesh's geometry moved by the mesh's position (lines 504, 509-514, 517-522)
TranslatedByPosition(mesh) ==
    translateGeometry(mesh.geometry, mesh.position[1], mesh.position[2], mesh.position[3])

\* the loop of lines 516-524: after[k] is merged after k of the meshes
MergeInto(merged, meshes) ==
    LET after[k \in 0..Len(meshes)] ==
            IF k = 0 THEN merged
            ELSE CHOOSE next \in
                    {mergeTwoGeometries(before, TranslatedByPosition(meshes[k])) :
                        before \in {after[k - 1]}} : TRUE
    IN  after[Len(meshes)]

\* mergeGeometries: null for no meshes, and when the try block of lines
\* 508-527 throws (the catch of lines 528-531); else one mesh with the first
\* mesh's material
mergeGeometries(meshes) ==
    IF Len(meshes) = 0 THEN [isNull |-> TRUE, mesh |-> Mesh(<<>>, "", <<>>)]
    ELSE IF Len(meshes) > 1 /\ mergeFault = "outer"
    THEN [isNull |-> TRUE, mesh |-> Mesh(<<>>, "", <<>>)]
    ELSE IF Len(meshes) = 1
    THEN [isNull |-> FALSE,
          mesh |-> Mesh(TranslatedByPosition(meshes[1]), meshes[1].material,
                        meshes[1].blockKey)]
    ELSE [isNull |-> FALSE,
          mesh |-> Mesh(MergeInto(TranslatedByPosition(meshes[1]), Tail(meshes)),
                        meshes[1].material, meshes[1].blockKey)]

\* the loop of lines 368-378: each further child geometry is moved by its
\* mesh's position and merged in
MergeChildren(mergedGeometry, children) ==
    LET after[k \in 0..Len(children)] ==
            IF k = 0 THEN mergedGeometry
            ELSE CHOOSE next \in
                    {mergeTwoGeometries(before, TranslatedByPosition(children[k])) :
                        before \in {after[k - 1]}} : TRUE
    IN  after[Len(children)]

\* extractGeometryAndMaterials: a model is [children], each child a mesh
extractGeometryAndMaterials(model) ==
    IF Len(model.children) = 0
    THEN [isNull |-> TRUE, geometry |-> <<>>, materials |-> ""]
    ELSE [isNull |-> FALSE,
          geometry |-> MergeChildren(model.children[1].geometry, Tail(model.children)),
          materials |-> model.children[1].material]

-----------------------------------------------------------------------------
(* applyTransformations.  Angles are in quarter turns: Math.PI is 2.        *)

\* properties.find(property => property.startsWith(prefix))
find(properties, prefix) ==
    IF \E i \in 1..Len(properties) : startsWith(properties[i], <<prefix>>)
    THEN Arr(properties[CHOOSE i \in 1..Len(properties) :
                /\ startsWith(properties[i], <<prefix>>)
                /\ \A j \in 1..(i - 1) : ~startsWith(properties[j], <<prefix>>)])
    ELSE UndefinedArray

\* what follows the "key=" token: half.substring(5), facing.substring(7), ...
ValueOf(property) == substringFrom(property.v, 1)

\* lines 548-565 mutated: the turn does not depend on half
FacingTurn_noFlip(direction, upsideDown) ==
    IF direction = <<"north">> THEN 1
    ELSE IF direction = <<"south">> THEN -1
    ELSE IF direction = <<"west">> THEN 2
    ELSE 0

\* lines 548-565: the change of rotation.y
FacingTurn(direction, upsideDown) ==
    IF direction = <<"north">> THEN (IF upsideDown THEN -1 ELSE 1)
    ELSE IF direction = <<"south">> THEN (IF upsideDown THEN 1 ELSE -1)
    ELSE IF direction = <<"west">> THEN (IF upsideDown THEN -2 ELSE 2)
    ELSE 0

applyTransformations(mesh, x, y, z, properties) ==
    LET half == find(properties, "half=")
        upsideDown == half.t = "array" /\ ValueOf(half) = <<"top">>
        facing == find(properties, "facing=")
        type == find(properties, "type=")
        axis == find(properties, "axis=")
        rx1 == IF upsideDown THEN 2 ELSE 0
        ry1 == IF facing.t = "array" THEN FacingTurn(ValueOf(facing), upsideDown) ELSE 0
        py == IF type.t = "array" /\ ValueOf(type) = <<"top">>
              THEN Scaled(y) + 1 ELSE Scaled(y)
        direction == IF axis.t = "array" THEN ValueOf(axis) ELSE <<>>
        rx == IF direction = <<"z">> THEN 1 ELSE rx1
        ry == IF direction = <<"y">> THEN 0 ELSE ry1
        rz == IF direction = <<"x">> THEN 1 ELSE 0
    IN  IF Len(properties) = 0
        THEN [mesh EXCEPT !.position = <<Scaled(x), Scaled(y), Scaled(z)>>]
        ELSE [mesh EXCEPT !.position = <<Scaled(x), py, Scaled(z)>>,
                          !.rotation = <<rx, ry, rz>>]

-----------------------------------------------------------------------------
(* render, lines 146-328: what runs after the model requests have settled  *)

\* CHUNK_SIZE of line 169, and the count below which a group is not merged
\* (line 205)
CHUNK_SIZE == 50
MergeThreshold == 5

\* the result of one request: pending, failed (model: null), or loaded
Pending == [state |-> "pending", model |-> [children |-> <<>>]]
Failed == [state |-> "failed", model |-> [children |-> <<>>]]
Loaded(model) == [state |-> "loaded", model |-> model]

\* Promise.all(modelPromises) resolves when every promise has; mutated: when
\* the first has
AllSettled_first(results) ==
    Len(results) = 0 \/ \E i \in 1..Len(results) : results[i].state # "pending"

AllSettled(results) == \A i \in 1..Len(results) : results[i].state # "pending"

\* lines 146-151: the entries of modelCache, in the order of loadedModels
ModelCache(requests, results) ==
    LET after[k \in 0..Len(results)] ==
            IF k = 0 THEN <<>>
            ELSE IF results[k].state = "loaded"
            THEN Append(after[k - 1],
                        [blockKey |-> requests[k].blockKey, model |-> results[k].model])
            ELSE after[k - 1]
    IN  after[Len(results)]

\* modelCache.get(blockKey): the position of the entry, 0 for undefined
ModelCacheGet(cache, blockKey) ==
    IF \E i \in 1..Len(cache) : cache[i].blockKey = blockKey
    THEN CHOOSE i \in 1..Len(cache) : cache[i].blockKey = blockKey
    ELSE 0

\* skippedBlocks[blockName]++ of lines 137-138; the object is the sequence of
\* its [blockName, count] entries in insertion order
CountSkipped(skipped, blockName) ==
    IF \E i \in 1..Len(skipped) : skipped[i].blockName = blockName
    THEN [i \in 1..Len(skipped) |->
            IF skipped[i].blockName = blockName
            THEN [skipped[i] EXCEPT !.count = @ + 1] ELSE skipped[i]]
    ELSE Append(skipped, [blockName |-> blockName, count |-> 1])

\* lines 183-185, mutated: only facing= counts as a rotation
hasRotation_facingOnly(properties) ==
    \E i \in 1..Len(properties) : startsWith(properties[i], <<"facing=">>)

\* lines 183-185
hasRotation(properties) ==
    \E i \in 1..Len(properties) :
        \/ startsWith(properties[i], <<"facing=">>)
        \/ startsWith(properties[i], <<"axis=">>)
        \/ startsWith(properties[i], <<"half=">>)
        \/ startsWith(properties[i], <<"type=">>)

\* position.count of a geometry, 0 when it has no position attribute
\* (the tests of lines 215, 235 and 243)
PositionCount(geometry) == Len(ItemsOf(geometry.position))

\* lines 208-219: one transformed mesh per position
IndividualMeshes(cachedGeo, cachedMat, blockData) ==
    [k \in 1..Len(blockData.positions) |->
        applyTransformations(Mesh(cachedGeo, cachedMat, blockData.blockKey),
            blockData.positions[k].x, blockData.positions[k].y,
            blockData.positions[k].z, blockData.properties)]

\* lines 222-226: one mesh per position, its geometry moved to the position
TranslatedMeshes(cachedGeo, cachedMat, blockData) ==
    [k \in 1..Len(blockData.positions) |->
        Mesh(translateGeometry(cachedGeo, Scaled(blockData.positions[k].x),
                Scaled(blockData.positions[k].y), Scaled(blockData.positions[k].z)),
             cachedMat, blockData.blockKey)]

\* the sum of position.count over meshes
VerticesOf(meshes) ==
    LET sum[k \in 0..Len(meshes)] ==
            IF k = 0 THEN 0 ELSE sum[k - 1] + PositionCount(meshes[k].geometry)
    IN  sum[Len(meshes)]

\* lines 205-250: the meshes added to the scene for a group whose geometry
\* was extracted
GroupMeshes(cachedGeo, cachedMat, blockData) ==
    IF hasRotation(blockData.properties) \/ Len(blockData.positions) < MergeThreshold
    THEN IndividualMeshes(cachedGeo, cachedMat, blockData)
    ELSE LET meshes == TranslatedMeshes(cachedGeo, cachedMat, blockData)
             merged == mergeGeometries(meshes)
         IN  IF ~merged.isNull THEN <<merged.mesh>> ELSE meshes

\* the body of the loop of line 175 for one entry of blockMap; out is
\* [scene, meshCount, vertexCount, faceCount, geometryCache], faceCount in
\* thirds of a face
ProcessGroup(out, cache, blockData) ==
    LET at == ModelCacheGet(cache, blockData.blockKey)
        extracted == extractGeometryAndMaterials(cache[at].model)
        added == GroupMeshes(extracted.geometry, extracted.materials, blockData)
    IN  IF at = 0 THEN out
        ELSE IF Len(blockData.positions) = 0 THEN out
        ELSE IF extracted.isNull THEN out
        ELSE [out EXCEPT !.scene = @ \o added,
                         !.meshCount = @ + Len(blockData.positions),
                         !.vertexCount = @ + VerticesOf(added),
                         !.faceCount = @ + VerticesOf(added),
                         !.geometryCache = @ \cup {blockData.blockKey}]

\* the loop of line 175 mutated: a group without a model ends the loop
ProcessChunk_abort(out, cache, chunk) ==
    LET after[k \in 0..Len(chunk)] ==
            IF k = 0 THEN out
            ELSE IF \E j \in 1..k : ModelCacheGet(cache, chunk[j].blockKey) = 0
            THEN after[k - 1]
            ELSE CHOOSE next \in
                    {ProcessGroup(before, cache, chunk[k]) : before \in {after[k - 1]}} :
                        TRUE
    IN  after[Len(chunk)]

\* the loop of line 175 over a chunk: after[k] is what is counted and added
\* after k entries
ProcessChunk(out, cache, chunk) ==
    LET after[k \in 0..Len(chunk)] ==
            IF k = 0 THEN out
            ELSE CHOOSE next \in
                    {ProcessGroup(before, cache, chunk[k]) : before \in {after[k - 1]}} :
                        TRUE
    IN  after[Len(chunk)]

Min(a, b) == IF a < b THEN a ELSE b

\* blockEntries.slice(i, i + CHUNK_SIZE) mutated: a later chunk starts with
\* the last entry of the chunk before it
ChunkAt_overlap(blockEntries, i, size) ==
    SubSeq(blockEntries, IF i = 0 THEN 1 ELSE i, Min(i + size, Len(blockEntries)))

\* blockEntries.slice(i, i + CHUNK_SIZE)
ChunkAt(blockEntries, i, size) ==
    SubSeq(blockEntries, i + 1, Min(i + size, Len(blockEntries)))

\* Array.from(blockMap.entries()) mutated: the entries in the order in which
\* their requests settled
BlockEntries_settled(map, order) == [k \in 1..Len(order) |-> map[order[k]]]

\* Array.from(blockMap.entries()): insertion order, whatever the order in
\* which the requests settled
BlockEntries(map, order) == map

\* Math.floor(faceCount)
Floor3(thirds) == thirds \div 3

\* lines 254-260 mutated: processed is the start of the chunk
ProgressEvent_chunkStart(i, size, total, out) ==
    [type |-> "render:progress",
     data |-> [processed |-> i, total |-> total,
               meshes |-> out.meshCount, vertices |-> out.vertexCount,
               faces |-> Floor3(out.faceCount)]]

\* lines 254-260
ProgressEvent(i, size, total, out) ==
    [type |-> "render:progress",
     data |-> [processed |-> Min(i + size, total), total |-> total,
               meshes |-> out.meshCount, vertices |-> out.vertexCount,
               faces |-> Floor3(out.faceCount)]]

\* the GridHelper of lines 283-286
GridHelper ==
    [kind |-> "grid", geometry |-> <<>>, material |-> "", position |-> <<0, 0, 0>>,
     rotation |-> <<0, 0, 0>>, blockKey |-> <<>>]

\* lines 266-328 mutated: render:finished is emitted before render:complete
FinalEvents_finishedFirst(out, map, skipped) ==
    << [type |-> "render:finished",
        data |-> [meshes |-> out.meshCount, vertices |-> out.vertexCount,
                  faces |-> Floor3(out.faceCount), uniqueBlockTypes |-> Len(map),
                  skippedBlocks |-> skipped]],
       [type |-> "render:complete",
        data |-> [meshes |-> out.meshCount, vertices |-> out.vertexCount,
                  faces |-> Floor3(out.faceCount), uniqueBlockTypes |-> Len(map)]] >>

\* lines 266-271 and 321-328
FinalEvents(out, map, skipped) ==
    << [type |-> "render:complete",
        data |-> [meshes |-> out.meshCount, vertices |-> out.vertexCount,
                  faces |-> Floor3(out.faceCount), uniqueBlockTypes |-> Len(map)]],
       [type |-> "render:finished",
        data |-> [meshes |-> out.meshCount, vertices |-> out.vertexCount,
                  faces |-> Floor3(out.faceCount), uniqueBlockTypes |-> Len(map),
                  skippedBlocks |-> skipped]] >>

-----------------------------------------------------------------------------
(* Inputs *)

Dims == 1..MaxDim

\* a palette key written by the exporter: name, then [p1,...,pn] when n > 0
RECURSIVE JoinComma(_)
JoinComma(props) ==
    IF Len(props) = 0 THEN <<>>
    ELSE Head(props) \o (IF Len(props) > 1 THEN <<",">> ELSE <<>>)
         \o JoinComma(Tail(props))

MakeKey(name, props) ==
    IF Len(props) = 0 THEN name
    ELSE name \o <<"[">> \o JoinComma(props) \o <<"]">>

\* the block states the palettes are written from
StateAir == [name |-> mc("air"), props |-> <<>>]
StateStone == [name |-> mc("stone"), props |-> <<>>]
StateStairs == [name |-> mc("oak_stairs"),
                props |-> << <<"facing=", "north">>, <<"half=", "bottom">> >>]
StateCopper == [name |-> <<"minecraft", ":", "waxed_", "copper_block">>, props |-> <<>>]
StateSlab == [name |-> mc("oak_slab"), props |-> << <<"type=", "top">> >>]
StateDirt == [name |-> mc("dirt"), props |-> <<>>]

\* a palette as [state, value] pairs in key order; PaletteStatesB maps two
\* keys to the id 1
PaletteStatesA ==
    << [state |-> StateAir, value |-> 0], [state |-> StateStone, value |-> 1],
       [state |-> StateStairs, value |-> 2], [state |-> StateCopper, value |-> 3] >>
PaletteStatesB ==
    << [state |-> StateStone, value |-> 0], [state |-> StateSlab, value |-> 1],
       [state |-> StateAir, value |-> 2], [state |-> StateDirt, value |-> 1] >>
PaletteStates == {PaletteStatesA, PaletteStatesB}

PaletteOf(states) ==
    [i \in 1..Len(states) |->
        [key |-> MakeKey(states[i].state.name, states[i].state.props),
         value |-> states[i].value]]

\* ids of BlockData (4 is in neither palette), bytes of Blocks (19 and 36 are
\* not in the table of src/src/webschematics.js, 36 is not in part_001's),
\* bytes of Data
IdPool == <<0, 1, 2, 3, 4>>
BytePool == <<1, 2, 0, -1, 19, 36, 127, -128>>
DataPool == <<0, 3, -1, 15>>
Strides == {0, 1}

\* the array of length n whose i-th element (0-based) is
\* pool[(i * stride + offset) mod |pool|]
FlatArray(pool, n, stride, offset) ==
    [i \in 1..(IF n < 0 THEN 0 ELSE n) |->
        pool[(((i - 1) * stride + offset) % Len(pool)) + 1]]

\* the arrays start at the head or in the middle of the pool
Offsets(pool) == {0, Len(pool) \div 2}

FlatArrays(pool, full) ==
    {FlatArray(pool, full - d, s, o) :
        d \in 0..MaxShort, s \in Strides, o \in Offsets(pool)}

Tree(W, H, L, Palette, BlockData, Blocks, Data) ==
    [isNull |-> FALSE, hasValue |-> TRUE,
     value |-> [Width |-> W, Height |-> H, Length |-> L, Palette |-> Palette,
                BlockData |-> BlockData, Blocks |-> Blocks, Data |-> Data]]

NoPalette == Absent(<<>>)
NoArray == Absent(<<>>)

\* well-formed palette files, with BlockData complete or truncated
SchemTrees ==
    UNION {
        {Tree(Field(d[1]), Field(d[2]), Field(d[3]), Field(PaletteOf(p)), Field(bd),
              NoArray, NoArray) :
            p \in PaletteStates, bd \in FlatArrays(IdPool, d[1] * d[2] * d[3])} :
        d \in Dims \X Dims \X Dims}

\* the Data field of a legacy file: absent, without a value, or an array
DataFields(full) ==
    {NoArray, NoValue(<<>>)}
    \cup {Field(FlatArray(DataPool, full - d, 1, o)) :
            d \in 0..MaxShort, o \in Offsets(DataPool)}

\* well-formed legacy files, with Blocks and Data complete or truncated
SchematicTrees ==
    UNION {
        {Tree(Field(d[1]), Field(d[2]), Field(d[3]), NoPalette, NoArray, Field(b), data) :
            b \in FlatArrays(BytePool, d[1] * d[2] * d[3]),
            data \in DataFields(d[1] * d[2] * d[3])} :
        d \in Dims \X Dims \X Dims}

\* a field that is absent, present without a value, or present
Presence == {"absent", "novalue", "ok"}
FieldIn(p, v) ==
    IF p = "ok" THEN Field(v) ELSE IF p = "novalue" THEN NoValue(v) ELSE Absent(v)

\* 1x1x1 files with every combination of missing and invalid fields
StructuralTrees ==
    {Tree(FieldIn(p[1], 1), FieldIn(p[2], 1), FieldIn(p[3], 1),
          FieldIn(p[4], PaletteOf(PaletteStatesA)), FieldIn(p[5], <<1>>),
          FieldIn(p[6], <<1>>), FieldIn(p[7], <<3>>)) :
        p \in [1..7 -> Presence]}

\* a tree that is null, and a tree without a value property
NullTree == [Tree(Absent(0), Absent(0), Absent(0), NoPalette, NoArray, NoArray, NoArray)
                EXCEPT !.isNull = TRUE, !.hasValue = FALSE]
NoValueTree == [NullTree EXCEPT !.isNull = FALSE]

Trees == SchemTrees \cup SchematicTrees \cup StructuralTrees \cup {NullTree, NoValueTree}

\* a file nbt.parse reports an error for, and the files it parses
Files ==
    {[parseError |-> TRUE, tree |-> NullTree]}
    \cup {[parseError |-> FALSE, tree |-> t] : t \in Trees}

Copies == {"src", "part_001"}

\* the geometry of a model's child mesh: one triangle with normals, uvs and
\* the index [0, 1, 2]
Triangle ==
    [position |-> Arr(<< <<-1, -1, -1>>, <<1, -1, -1>>, <<-1, 1, -1>> >>),
     normal |-> Arr(<< <<0, 0, -1>>, <<0, 0, -1>>, <<0, 0, -1>> >>),
     uv |-> Arr(<< <<0, 0>>, <<1, 0>>, <<0, 1>> >>),
     index |-> Arr(<<0, 1, 2>>)]

\* a child mesh of a model, at a position of its own
Child(geometry, material, position) ==
    [Mesh(geometry, material, <<>>) EXCEPT !.position = position]

\* what loadModel resolves with: a group without meshes, one triangle, or two
\* triangles of which the second sits one block higher
ModelEmpty == [children |-> <<>>]
ModelTriangle == [children |-> <<Child(Triangle, "side", <<0, 0, 0>>)>>]
ModelTwoTriangles ==
    [children |-> <<Child(Triangle, "side", <<0, 0, 0>>),
                    Child(Triangle, "top", <<0, Scaled(1), 0>>)>>]
ModelPool == {ModelEmpty, ModelTriangle, ModelTwoTriangles}

\* chunk sizes: 1..MaxChunk, and the CHUNK_SIZE of the code
ChunkSizes == (1..MaxChunk) \cup {CHUNK_SIZE}

\* the palettes of the files that are rendered to the end: PaletteStatesC
\* holds a block and its waxed alias, PaletteStatesAir only air
StateCopperPlain == [name |-> mc("copper_block"), props |-> <<>>]
StateStairsTop == [name |-> mc("oak_stairs"),
                   props |-> << <<"facing=", "north">>, <<"half=", "top">> >>]
PaletteStatesC ==
    << [state |-> StateAir, value |-> 0], [state |-> StateStone, value |-> 1],
       [state |-> StateCopperPlain, value |-> 2], [state |-> StateCopper, value |-> 3],
       [state |-> StateStairsTop, value |-> 4] >>
PaletteStatesAir == << [state |-> StateAir, value |-> 0] >>

\* n ids: as many a as a merged group needs at least, then b
Mostly(n, a, b) == [k \in 1..n |-> IF k <= MergeThreshold THEN a ELSE b]

SchemTree(d, states, blockData) ==
    Tree(Field(d), Field(d), Field(d), Field(PaletteOf(states)), Field(blockData),
         NoArray, NoArray)

SchematicTree(d, blocksArray, data) ==
    Tree(Field(d), Field(d), Field(d), NoPalette, NoArray, Field(blocksArray), data)

Cube == MaxDim * MaxDim * MaxDim

\* the files that are rendered to the end: only air; three small groups;
\* a block and its waxed alias; one large group; one large rotated group;
\* one large group placed by type=; a large and a small group; legacy stone
\* told apart by its data, and air that carries data
RenderTrees ==
    {SchemTree(1, PaletteStatesAir, <<0>>),
     SchemTree(MaxDim, PaletteStatesA, FlatArray(IdPool, Cube, 1, 0)),
     SchemTree(MaxDim, PaletteStatesC, FlatArray(IdPool, Cube, 1, 2)),
     SchemTree(MaxDim, PaletteStatesC, FlatArray(IdPool, Cube, 0, 2)),
     SchemTree(MaxDim, PaletteStatesA, FlatArray(IdPool, Cube, 0, 2)),
     SchemTree(MaxDim, PaletteStatesB, FlatArray(IdPool, Cube, 0, 1)),
     SchemTree(MaxDim, PaletteStatesC, Mostly(Cube, 2, 1)),
     SchematicTree(MaxDim, Mostly(Cube, 1, 0),
                   Field(FlatArray(DataPool, Cube, 1, 0)))}

RenderFiles == {[parseError |-> FALSE, tree |-> t] : t \in RenderTrees}

-----------------------------------------------------------------------------
(* The state machine *)

NoGrid == [built |-> FALSE, cells |-> NoCells]

\* nothing has run yet
Fresh ==
    /\ pc = "called"
    /\ nbtData = NullTree
    /\ error = NoError
    /\ blocks = NoGrid
    /\ skippedBlocks = <<>>
    /\ renderCalls = 0
    /\ blockMap = <<>>
    /\ modelRequests = <<>>
    /\ statsEvents = <<>>
    /\ parentChildren = 0
    /\ listeners = 0
    /\ loadedModels = <<>>
    /\ settleOrder = <<>>
    /\ renderSkipped = <<>>
    /\ modelCache = <<>>
    /\ geometryCache = {}
    /\ scene = <<>>
    /\ meshCount = 0
    /\ vertexCount = 0
    /\ faceCount = 0
    /\ chunkStart = 0

Init ==
    /\ copy \in Copies
    /\ file \in Files
    /\ chunkSize = CHUNK_SIZE
    /\ mergeFault = "none"
    /\ Fresh

\* renderSchematic line 8, getNbtData: nbt.parse calls back with the tree or
\* with an error; the error rejects renderSchematic through its catch block
getNbtData ==
    /\ pc = "called"
    /\ IF file.parseError
       THEN /\ pc' = "rejected"
            /\ error' = "NBT parse error"
            /\ UNCHANGED nbtData
       ELSE /\ pc' = "parsed"
            /\ nbtData' = file.tree
            /\ UNCHANGED error
    /\ UNCHANGED <<copy, file, blocks, skippedBlocks, renderCalls, blockMap,
                   modelRequests, statsEvents, parentChildren, listeners,
                   chunkSize, mergeFault, renderVars>>

\* renderSchematic lines 10-54 and, when the decoder returns, render up to
\* its first suspension (renderer.js lines 17-145)
renderSchematic ==
    /\ pc = "parsed"
    /\ LET r == Decode(copy, nbtData)
           map == CollectBlocks(<<>>, r.cells, GridScan(r.cells))
       IN  IF RenderReached(r)
           THEN /\ pc' = "loading"
                /\ blocks' = [built |-> TRUE, cells |-> r.cells]
                /\ skippedBlocks' = r.skipped
                /\ renderCalls' = renderCalls + 1
                /\ parentChildren' = parentChildren + 1
                /\ listeners' = listeners + 1
                /\ blockMap' = map
                /\ modelRequests' = ModelRequests(map)
                /\ loadedModels' = [k \in 1..Len(map) |-> Pending]
                /\ statsEvents' = statsEvents \o
                      << [type |-> "render:start",
                          data |-> [blockCount |-> NonAirCount(r.cells)]],
                         [type |-> "blocks:collected",
                          data |-> [uniqueBlockTypes |-> Len(map),
                                    totalBlocks |-> TotalPositions(map)]] >>
                /\ UNCHANGED error
           ELSE /\ pc' = "rejected"
                /\ error' = r.error
                /\ UNCHANGED <<blocks, skippedBlocks, renderCalls, blockMap,
                               modelRequests, statsEvents, parentChildren, listeners,
                               loadedModels>>
    /\ UNCHANGED <<copy, file, nbtData, chunkSize, mergeFault, settleOrder, renderSkipped,
                   modelCache, geometryCache, scene, meshCount, vertexCount,
                   faceCount, chunkStart>>

Next == getNbtData \/ renderSchematic

Spec == Init /\ [][Next]_vars

-----------------------------------------------------------------------------
(* render after its first suspension *)

\* lines 133-134: loadModel resolves for one request; model is what it
\* resolves with
modelLoaded ==
    \E k \in 1..Len(loadedModels), model \in ModelPool :
        /\ pc = "loading"
        /\ loadedModels[k] = Pending
        /\ loadedModels' = [loadedModels EXCEPT ![k] = Loaded(model)]
        /\ settleOrder' = Append(settleOrder, k)
        /\ UNCHANGED <<copy, file, pc, nbtData, error, blocks, skippedBlocks,
                       renderCalls, blockMap, modelRequests, statsEvents,
                       parentChildren, listeners, chunkSize, mergeFault, renderSkipped,
                       modelCache, geometryCache, scene, meshCount, vertexCount,
                       faceCount, chunkStart>>

\* lines 135-140: loadModel rejects for one request
modelFailed ==
    \E k \in 1..Len(loadedModels) :
        /\ pc = "loading"
        /\ loadedModels[k] = Pending
        /\ loadedModels' = [loadedModels EXCEPT ![k] = Failed]
        /\ settleOrder' = Append(settleOrder, k)
        /\ renderSkipped' = CountSkipped(renderSkipped, blockMap[k].blockName)
        /\ UNCHANGED <<copy, file, pc, nbtData, error, blocks, skippedBlocks,
                       renderCalls, blockMap, modelRequests, statsEvents,
                       parentChildren, listeners, chunkSize, mergeFault, modelCache,
                       geometryCache, scene, meshCount, vertexCount, faceCount,
                       chunkStart>>

\* what render has counted and added so far
Out ==
    [scene |-> scene, meshCount |-> meshCount, vertexCount |-> vertexCount,
     faceCount |-> faceCount, geometryCache |-> geometryCache]

\* lines 172-263 for the chunk that starts at i: the chunk is processed,
\* render:progress emitted, and render suspends on the timer
RunChunk(out, cache, i, events) ==
    LET blockEntries == BlockEntries(blockMap, settleOrder)
        done == ProcessChunk(out, cache, ChunkAt(blockEntries, i, chunkSize))
    IN  /\ pc' = "yielded"
        /\ chunkStart' = i
        /\ scene' = done.scene
        /\ meshCount' = done.meshCount
        /\ vertexCount' = done.vertexCount
        /\ faceCount' = done.faceCount
        /\ geometryCache' = done.geometryCache
        /\ statsEvents' = events
                \o <<ProgressEvent(i, chunkSize, Len(blockEntries), done)>>

\* lines 266-337: the loop has ended
Finish(out, events) ==
    /\ pc' = "finished"
    /\ scene' = Append(out.scene, GridHelper)
    /\ statsEvents' = events \o FinalEvents(out, blockMap, renderSkipped)
    /\ UNCHANGED <<meshCount, vertexCount, faceCount, geometryCache, chunkStart>>

\* the continuation of line 145: every request has settled.  It runs to the
\* timer of the first chunk, or to the end when there is no group.
modelsSettled ==
    /\ pc = "loading"
    /\ AllSettled(loadedModels)
    /\ LET cache == ModelCache(modelRequests, loadedModels)
           events == Append(statsEvents,
                [type |-> "models:loaded",
                 data |-> [loaded |-> Len(cache),
                           failed |-> Len(modelRequests) - Len(cache),
                           skippedBlocks |-> renderSkipped]])
       IN  /\ modelCache' = cache
           /\ IF 0 < Len(BlockEntries(blockMap, settleOrder))
              THEN RunChunk(Out, cache, 0, events)
              ELSE Finish(Out, events)
    /\ UNCHANGED <<copy, file, nbtData, error, blocks, skippedBlocks, renderCalls,
                   blockMap, modelRequests, parentChildren, listeners, chunkSize, mergeFault,
                   loadedModels, settleOrder, renderSkipped>>

\* the continuation of line 263: the timer has fired.  i += CHUNK_SIZE, then
\* the next chunk, or the end.
timerFired ==
    /\ pc = "yielded"
    /\ IF chunkStart + chunkSize < Len(BlockEntries(blockMap, settleOrder))
       THEN RunChunk(Out, modelCache, chunkStart + chunkSize, statsEvents)
       ELSE Finish(Out, statsEvents)
    /\ UNCHANGED <<copy, file, nbtData, error, blocks, skippedBlocks, renderCalls,
                   blockMap, modelRequests, parentChildren, listeners, chunkSize, mergeFault,
                   loadedModels, settleOrder, renderSkipped, modelCache>>

\* the files that are rendered to the end, with every chunk size
RenderInit ==
    /\ copy \in Copies
    /\ file \in RenderFiles
    /\ chunkSize \in ChunkSizes
    /\ mergeFault = "none"
    /\ Fresh

RenderNext ==
    \/ getNbtData
    \/ renderSchematic
    \/ modelLoaded
    \/ modelFailed
    \/ modelsSettled
    \/ timerFired

RenderSpec == RenderInit /\ [][RenderNext]_vars

\* a continuation that is ready is taken up: render leaves the await of
\* line 145 once every promise has settled, and the await of line 263 once
\* the timer was set.  modelsSettled and timerFired are the only steps from
\* these states, and each of them changes <<pc, chunkStart>>.
ResumeAfterModels ==
    /\ pc = "loading"
    /\ AllSettled(loadedModels)
    /\ pc' \in {"yielded", "finished"}
    /\ chunkStart' = chunkStart

ResumeAfterTimer ==
    /\ pc = "yielded"
    /\ \/ pc' = "yielded" /\ chunkStart' = chunkStart + chunkSize
       \/ pc' = "finished" /\ chunkStart' = chunkStart

\* the event loop runs every continuation that is ready
RenderFairSpec ==
    /\ RenderSpec
    /\ WF_<<pc, chunkStart>>(ResumeAfterModels)
    /\ WF_<<pc, chunkStart>>(ResumeAfterTimer)

\* render on the files with a merged group, when a merge throws
FaultFiles ==
    {[parseError |-> FALSE, tree |-> t] :
        t \in {SchemTree(MaxDim, PaletteStatesC, FlatArray(IdPool, Cube, 0, 2)),
               SchemTree(MaxDim, PaletteStatesC, Mostly(Cube, 2, 1))}}

FaultInit ==
    /\ copy \in Copies
    /\ file \in FaultFiles
    /\ chunkSize = CHUNK_SIZE
    /\ mergeFault \in {"pairwise", "outer"}
    /\ Fresh

FaultSpec == FaultInit /\ [][RenderNext]_vars

\* render on grids that hold one block state at two positions, for every
\* choice of the properties applyTransformations reads and one it does not
OptionalProperty(key, values) == {<<>>} \cup {<< <<key, v>> >> : v \in values}

TransformProps ==
    {f \o h \o t \o a \o w :
        f \in OptionalProperty("facing=", {"north", "east", "south", "west"}),
        h \in OptionalProperty("half=", {"top", "bottom"}),
        t \in OptionalProperty("type=", {"top", "bottom"}),
        a \in OptionalProperty("axis=", {"x", "y", "z"}),
        w \in OptionalProperty("waterlogged=", {"false"})}

TransformFiles ==
    {[parseError |-> FALSE,
      tree |-> SchemTree(MaxDim,
                    << [state |-> StateAir, value |-> 0],
                       [state |-> [name |-> mc("oak_stairs"), props |-> props],
                        value |-> 1] >>,
                    [k \in 1..Cube |-> IF k \in {2, Cube} THEN 1 ELSE 0])] :
        props \in TransformProps}

TransformInit ==
    /\ copy = "src"
    /\ file \in TransformFiles
    /\ chunkSize = CHUNK_SIZE
    /\ mergeFault = "none"
    /\ Fresh

TransformSpec == TransformInit /\ [][RenderNext]_vars

-----------------------------------------------------------------------------
(* Notions the properties share *)

\* renderSchematic has settled: the grid went to render, or it rejected
Settled == pc \notin {"called", "parsed"}

\* the dimensions are there, so a decoder was chosen
DimsValid ==
    /\ ~nbtData.isNull /\ nbtData.hasValue
    /\ ~MissingOrInvalid(nbtData.value.Width)
    /\ ~MissingOrInvalid(nbtData.value.Height)
    /\ ~MissingOrInvalid(nbtData.value.Length)

Volume ==
    nbtData.value.Width.value * nbtData.value.Height.value * nbtData.value.Length.value

\* the grid in blocks was built by getBlocksFromSchem / getBlocksFromSchematic
BuiltBySchem == blocks.built /\ nbtData.value.Palette.present
BuiltBySchematic == blocks.built /\ ~nbtData.value.Palette.present

\* the coordinates of the grid, as <<y, x, z>>
Coordinates ==
    (0..(nbtData.value.Height.value - 1)) \X (0..(nbtData.value.Width.value - 1))
        \X (0..(nbtData.value.Length.value - 1))

\* the flat index the data model gives the coordinate c = <<y, x, z>>
FlatIndexOf(c) ==
    c[2] + c[3] * nbtData.value.Width.value
         + c[1] * nbtData.value.Width.value * nbtData.value.Length.value

CellAt(c) == blocks.cells[c[1]][c[2]][c[3]]

\* the element of BlockData / Blocks / Data the coordinate c reads
BlockDataAt(c) == ArrayGet(nbtData.value.BlockData.value, FlatIndexOf(c))
BlocksAt(c) == ArrayGet(nbtData.value.Blocks.value, FlatIndexOf(c))
DataAt(c) == LegacyData(nbtData.value.Data, FlatIndexOf(c))

-----------------------------------------------------------------------------
(* C1 *)

\* C1: for positive dimensions (w,h,l) and a flat id array of length w*h*l,
\* both grid builders store at [y][x][z] the descriptor resolved from the
\* element of the flat array at index x + z*w + y*w*l
C1_GridFollowsLinearIndex ==
    /\ (BuiltBySchem /\ Len(nbtData.value.BlockData.value) = Volume) =>
          \A c \in Coordinates :
              CellAt(c) = getBlockData(nbtData.value.Palette.value, BlockDataAt(c))
    /\ (BuiltBySchematic /\ Len(nbtData.value.Blocks.value) = Volume) =>
          \A c \in Coordinates :
              CellAt(c) = LegacyDescriptor(LegacyTable(copy),
                              LegacyId(copy, BlocksAt(c)), DataAt(c))

\* a 2x2x2 legacy grid of eight different ids was built: the cells at
\* (x,z) = (1,0) and (0,1) differ, and differ from the one at y = 1
C1_Witness ==
    /\ BuiltBySchematic
    /\ nbtData.value.Width.value = 2 /\ nbtData.value.Height.value = 2
    /\ nbtData.value.Length.value = 2
    /\ nbtData.value.Blocks.value = <<1, 2, 0, -1, 19, 36, 127, -128>>
    /\ blocks.cells[0][1][0].name = mc("grass_block")
    /\ blocks.cells[0][0][1].name = mc("air")
    /\ blocks.cells[1][0][0].name = UnknownName(Num(19))

-----------------------------------------------------------------------------
(* C2 *)

\* the flat array of the chosen decoder is shorter than width*height*length
Truncated ==
    /\ DimsValid
    /\ \/ /\ ~MissingOrInvalid(nbtData.value.Palette)
          /\ ~MissingOrInvalid(nbtData.value.BlockData)
          /\ Len(nbtData.value.BlockData.value) < Volume
       \/ /\ ~nbtData.value.Palette.present
          /\ ~MissingOrInvalid(nbtData.value.Blocks)
          /\ Len(nbtData.value.Blocks.value) < Volume

\* C2: if the flat id array is shorter than width*height*length, building the
\* grid fails with an error and no grid is returned
C2_TruncatedDataFails ==
    (Settled /\ Truncated) => (pc = "rejected" /\ error # NoError /\ ~blocks.built)

-----------------------------------------------------------------------------
(* C3 *)

\* renderSchematic ended the way the decoder result r ends
EndsAs(r) ==
    IF r.ok
    THEN pc = "loading" /\ blocks.built /\ blocks.cells = r.cells
    ELSE pc = "rejected" /\ error = r.error

\* C3: the palette-based decoder is selected iff the tree has both a Palette
\* and a BlockData field; otherwise the legacy decoder iff it has a Blocks
\* field; otherwise renderSchematic fails with the unknown-format error
C3_FormatDetection ==
    (Settled /\ DimsValid) =>
        IF nbtData.value.Palette.present /\ nbtData.value.BlockData.present
        THEN EndsAs(getBlocksFromSchem(nbtData))
        ELSE IF nbtData.value.Blocks.present
        THEN EndsAs(getBlocksFromSchematic(copy, nbtData))
        ELSE pc = "rejected" /\
             error = "Unknown schematic format: missing both Palette/BlockData and Blocks fields"

-----------------------------------------------------------------------------
(* C4 *)

\* the grid has a cell at exactly the coordinates [0,w) x [0,h) x [0,l),
\* w*h*l cells in all, each with a name
GridIsDense ==
    /\ DOMAIN blocks.cells = 0..(nbtData.value.Height.value - 1)
    /\ \A y \in DOMAIN blocks.cells :
          /\ DOMAIN blocks.cells[y] = 0..(nbtData.value.Width.value - 1)
          /\ \A x \in DOMAIN blocks.cells[y] :
                DOMAIN blocks.cells[y][x] = 0..(nbtData.value.Length.value - 1)
    /\ Len(GridScan(blocks.cells)) = Volume
    /\ \A c \in Coordinates : Len(CellAt(c).name) > 0

\* no palette entry maps to the id read for c
PaletteUnresolved(c) ==
    \A i \in 1..Len(nbtData.value.Palette.value) :
        ~(IsNum(BlockDataAt(c)) /\ nbtData.value.Palette.value[i].value = BlockDataAt(c).n)

\* the table of the running copy has no entry for the id it looks up for c
LegacyUnresolved(c) ==
    LET id == LegacyId(copy, BlocksAt(c))
    IN  ~(IsNum(id) /\ id.n \in DOMAIN LegacyTable(copy))

\* C4 as stated: on every successful build the grid has exactly w*h*l cells,
\* each with a defined name, and a cell whose id is unresolved is air, in
\* both builders
C4_DenseGridAirWhenUnresolved ==
    blocks.built =>
        /\ GridIsDense
        /\ BuiltBySchem =>
              \A c \in Coordinates : PaletteUnresolved(c) => CellAt(c).name = Air
        /\ BuiltBySchematic =>
              \A c \in Coordinates : LegacyUnresolved(c) => CellAt(c).name = Air

\* C4 amended: on every successful build the grid has exactly w*h*l cells,
\* each with a defined name; a cell whose palette id is unresolved is air, and
\* a cell whose legacy id the table lacks is named minecraft:unknown_<id>
C4_DenseGridAirOrUnknown ==
    blocks.built =>
        /\ GridIsDense
        /\ BuiltBySchem =>
              \A c \in Coordinates : PaletteUnresolved(c) => CellAt(c).name = Air
        /\ BuiltBySchematic =>
              \A c \in Coordinates :
                  LegacyUnresolved(c) =>
                      CellAt(c).name = UnknownName(LegacyId(copy, BlocksAt(c)))

\* a 2x2x2 legacy grid was built in which the id 19, which the table of
\* src/src/webschematics.js lacks, is named minecraft:unknown_19
C4_Witness ==
    /\ BuiltBySchematic /\ copy = "src" /\ Volume = 8
    /\ \E c \in Coordinates :
          /\ BlocksAt(c) = Num(19) /\ LegacyUnresolved(c)
          /\ CellAt(c).name = <<"minecraft", ":", "unknown_", "1", "9">>

-----------------------------------------------------------------------------
(* C5 *)

\* the structural failures: no root value, a dimension missing, neither
\* Palette nor Blocks, or the chosen decoder's Palette / BlockData / Blocks
\* missing or without a value
StructuralFailure ==
    \/ nbtData.isNull \/ ~nbtData.hasValue
    \/ MissingOrInvalid(nbtData.value.Width)
    \/ MissingOrInvalid(nbtData.value.Height)
    \/ MissingOrInvalid(nbtData.value.Length)
    \/ ~nbtData.value.Palette.present /\ ~nbtData.value.Blocks.present
    \/ /\ nbtData.value.Palette.present
       /\ \/ MissingOrInvalid(nbtData.value.Palette)
          \/ MissingOrInvalid(nbtData.value.BlockData)
    \/ ~nbtData.value.Palette.present /\ MissingOrInvalid(nbtData.value.Blocks)

\* render left no trace: no call, no group, no model request, no event, no
\* canvas under the parent, no listener
RenderNeverInvoked ==
    /\ renderCalls = 0 /\ ~blocks.built
    /\ blockMap = <<>> /\ modelRequests = <<>> /\ statsEvents = <<>>
    /\ parentChildren = 0 /\ listeners = 0

\* C5: a structural failure makes renderSchematic reject with an error, and
\* then render is never invoked
C5_StructuralFailureRejects ==
    /\ (Settled /\ StructuralFailure) => (pc = "rejected" /\ error # NoError)
    /\ pc = "rejected" => (error # NoError /\ RenderNeverInvoked)

\* renderSchematic rejected a tree that has Palette but no BlockData
C5_Witness ==
    /\ pc = "rejected" /\ StructuralFailure
    /\ nbtData.value.Palette.present /\ ~nbtData.value.BlockData.present
    /\ error = "Invalid NBT structure: BlockData field missing or invalid"

-----------------------------------------------------------------------------
(* C6 *)

\* a % n of JavaScript: the remainder has the sign of a
JsRem(a, n) == IF a >= 0 THEN a % n ELSE -((-a) % n)

\* ((raw % 256) + 256) % 256
NormalizedByte(raw) == JsRem(JsRem(raw, 256) + 256, 256)

\* C6: for every raw signed byte the id looked up in the table is
\* ((raw % 256) + 256) % 256, in 0..255: the voxel gets the name the table
\* gives that id
C6_LegacyIdNormalized ==
    BuiltBySchematic =>
        \A c \in Coordinates :
            IsNum(BlocksAt(c)) =>
                /\ NormalizedByte(BlocksAt(c).n) \in 0..255
                /\ CellAt(c).name =
                      LegacyName(LegacyTable(copy), Num(NormalizedByte(BlocksAt(c).n)))

-----------------------------------------------------------------------------
(* C7 *)

\* entry i of the palette states p is the first one with the value id
FirstWithValue(p, i, id) ==
    /\ IsNum(id) /\ p[i].value = id.n
    /\ \A j \in 1..(i - 1) : p[j].value # id.n

\* the group of blockMap that lists the coordinate c = <<y, x, z>>
GroupsListing(c) ==
    {k \in 1..Len(blockMap) :
        \E n \in 1..Len(blockMap[k].positions) :
            blockMap[k].positions[n] = [x |-> c[2], y |-> c[1], z |-> c[3]]}

\* C7: a matching key name[p1,...,pn] resolves to the name before "[" and to
\* the properties p1..pn in their order; a key without "[" resolves to the
\* whole key as name with no property list, which grouping treats as []
C7_PaletteKeyParsing ==
    BuiltBySchem =>
        \A p \in PaletteStates :
            PaletteOf(p) = nbtData.value.Palette.value =>
                \A c \in Coordinates : \A i \in 1..Len(p) :
                    FirstWithValue(p, i, BlockDataAt(c)) =>
                        /\ CellAt(c).name = p[i].state.name
                        /\ IF Len(p[i].state.props) > 0
                           THEN CellAt(c).properties = Arr(p[i].state.props)
                           ELSE /\ CellAt(c).properties = UndefinedArray
                                /\ \A k \in GroupsListing(c) :
                                      blockMap[k].properties = <<>>

\* a grid was built with an oak_stairs[facing=north,half=bottom] voxel and a
\* stone voxel, the latter grouped with the properties []
C7_Witness ==
    /\ BuiltBySchem
    /\ \E c \in Coordinates :
          CellAt(c) = [name |-> mc("oak_stairs"),
                       properties |-> Arr(<< <<"facing=", "north">>,
                                             <<"half=", "bottom">> >>)]
    /\ \E c \in Coordinates :
          /\ CellAt(c) = [name |-> mc("stone"), properties |-> UndefinedArray]
          /\ \E k \in GroupsListing(c) : blockMap[k].properties = <<>>

-----------------------------------------------------------------------------
(* C8 *)

\* the tree has what getBlocksFromSchem needs
SchemWellFormed ==
    /\ DimsValid
    /\ ~MissingOrInvalid(nbtData.value.Palette)
    /\ ~MissingOrInvalid(nbtData.value.BlockData)

\* C8: a block id that no palette entry maps to resolves to the air
\* descriptor and raises nothing: the grid build completes with that voxel
\* as air
C8_UnmatchedIdIsAir ==
    (Settled /\ SchemWellFormed) =>
        /\ pc = "loading" /\ error = NoError /\ BuiltBySchem
        /\ \A c \in Coordinates :
              PaletteUnresolved(c) =>
                  CellAt(c) = [name |-> Air, properties |-> UndefinedArray]

\* a grid was built from a BlockData holding the id 4, which no palette maps
C8_Witness ==
    /\ BuiltBySchem
    /\ \E c \in Coordinates :
          /\ BlockDataAt(c) = Num(4) /\ PaletteUnresolved(c)
          /\ CellAt(c).name = Air

-----------------------------------------------------------------------------
(* C9 *)

\* the tree has what getBlocksFromSchematic needs
SchematicWellFormed ==
    /\ DimsValid
    /\ ~nbtData.value.Palette.present
    /\ ~MissingOrInvalid(nbtData.value.Blocks)

\* C9: a legacy id absent from the block table resolves to
\* minecraft:unknown_<id>, <id> the normalized id, the id is recorded as
\* skipped, and the grid build completes without error
C9_UnknownLegacyIdSkipped ==
    (Settled /\ SchematicWellFormed) =>
        /\ pc = "loading" /\ error = NoError /\ BuiltBySchematic
        /\ \A c \in Coordinates :
              (/\ IsNum(BlocksAt(c))
               /\ NormalizedByte(BlocksAt(c).n) \notin DOMAIN LegacyTable(copy)) =>
                  /\ CellAt(c).name = UnknownName(Num(NormalizedByte(BlocksAt(c).n)))
                  /\ \E k \in 1..Len(skippedBlocks) :
                        skippedBlocks[k] = Num(NormalizedByte(BlocksAt(c).n))

-----------------------------------------------------------------------------
(* C10 *)

\* the Data field is there with an array
HasData == nbtData.value.Data.present /\ nbtData.value.Data.hasValue

\* a 2x1x1 legacy grid with Blocks [1,2] and no Data yields two groups, stone
\* and grass_block, each with one position and no property
LegacyExample ==
    (/\ BuiltBySchematic
     /\ nbtData.value.Width.value = 2 /\ nbtData.value.Height.value = 1
     /\ nbtData.value.Length.value = 1
     /\ nbtData.value.Blocks.value = <<1, 2>>
     /\ ~nbtData.value.Data.present) =>
        /\ Len(blockMap) = 2
        /\ blockMap[1].blockName = <<"stone">>
        /\ blockMap[1].positions = <<[x |-> 0, y |-> 0, z |-> 0]>>
        /\ blockMap[1].properties = <<>>
        /\ blockMap[2].blockName = <<"grass_block">>
        /\ blockMap[2].positions = <<[x |-> 1, y |-> 0, z |-> 0]>>
        /\ blockMap[2].properties = <<>>

\* C10 as stated: a legacy voxel carries exactly one property data=<n> when
\* its Data value n is nonzero, and none when n is zero or Data is absent
C10_DataPropertyWhenNonzero ==
    /\ BuiltBySchematic =>
          \A c \in Coordinates :
              /\ (HasData /\ IsNum(DataAt(c)) /\ DataAt(c).n # 0) =>
                    CellAt(c).properties =
                        Arr(<< <<"data=">> \o TemplateString(DataAt(c)) >>)
              /\ (~HasData \/ DataAt(c) = Num(0)) =>
                    CellAt(c).properties = UndefinedArray
    /\ LegacyExample

\* C10 amended: a legacy voxel carries exactly one property data=<n> when its
\* Data value n is positive, and none when n is zero or negative, when the
\* Data array has no element for the voxel, or when Data is absent
C10_DataPropertyWhenPositive ==
    /\ BuiltBySchematic =>
          \A c \in Coordinates :
              IF HasData /\ IsNum(DataAt(c)) /\ DataAt(c).n > 0
              THEN CellAt(c).properties =
                       Arr(<< <<"data=">> \o TemplateString(DataAt(c)) >>)
              ELSE CellAt(c).properties = UndefinedArray
    /\ LegacyExample

\* a legacy grid was built with a voxel whose Data value is 15: it carries
\* the one property data=15
C10_Witness ==
    /\ BuiltBySchematic /\ HasData
    /\ \E c \in Coordinates :
          /\ DataAt(c) = Num(15)
          /\ CellAt(c).properties = Arr(<< <<"data=", "1", "5">> >>)

-----------------------------------------------------------------------------
(* Notions the properties of render share *)

\* the grouping pass has run
Grouped == pc \in {"loading", "yielded", "finished"}

\* render has returned
Finished == pc = "finished"

\* the geometry batches in the scene: its meshes, in the order of addition
Batches == SelectSeq(scene, LAMBDA m : m.kind = "mesh")

\* the batches made for the group with this key
BatchesOf(blockKey) == SelectSeq(Batches, LAMBDA m : m.blockKey = blockKey)

\* the descriptor at a position {x, y, z} of a group
BlockAt(p) == blocks.cells[p.y][p.x][p.z]

\* the group keys, and the coordinates of the grid as positions
GroupKeys == {blockMap[g].blockKey : g \in 1..Len(blockMap)}
GridPositions ==
    {[x |-> c[2], y |-> c[1], z |-> c[3]] :
        c \in {GridScan(blocks.cells)[k] : k \in 1..Len(GridScan(blocks.cells))}}

-----------------------------------------------------------------------------
(* C11 *)

\* C11: air is never grouped or rendered: no position of any group holds a
\* descriptor named minecraft:air, whatever its properties, and every batch
\* in the scene was made for a group; a grid of nothing but air yields no
\* group, no model request and no batch
C11_AirNeverGrouped ==
    Grouped =>
        /\ \A g \in 1..Len(blockMap) : \A k \in 1..Len(blockMap[g].positions) :
                BlockAt(blockMap[g].positions[k]).name # Air
        /\ \A b \in 1..Len(Batches) : Batches[b].blockKey \in GroupKeys
        /\ (\A p \in GridPositions : BlockAt(p).name = Air) =>
                /\ blockMap = <<>>
                /\ modelRequests = <<>>
                /\ Batches = <<>>

\* render has returned for the 1x1x1 file with the palette {minecraft:air: 0}
\* and BlockData [0], and for no group
C11_Witness ==
    /\ Finished
    /\ nbtData.value.Width.value = 1
    /\ nbtData.value.Palette.value = <<[key |-> mc("air"), value |-> 0]>>
    /\ nbtData.value.BlockData.value = <<0>>
    /\ blockMap = <<>>

-----------------------------------------------------------------------------
(* C12 *)

\* the name without its namespace prefix and without a leading waxed_
WithoutNamespace(name) ==
    IF \E k \in 1..Len(name) : name[k] = ":"
    THEN SubSeq(name, 1 + CHOOSE k \in 1..Len(name) :
                        name[k] = ":" /\ \A j \in 1..(k - 1) : name[j] # ":",
                Len(name))
    ELSE name
WithoutWaxed(name) ==
    IF Len(name) > 0 /\ name[1] = "waxed_" THEN Tail(name) ELSE name
StrippedName(name) == WithoutWaxed(WithoutNamespace(name))

\* the property sequence of a descriptor: empty when it has none
PropertySequence(block) ==
    IF block.properties.t = "array" THEN block.properties.v ELSE <<>>

NonAirPositions == {p \in GridPositions : BlockAt(p).name # Air}

\* the groups of a map that list the position
GroupsOf(map, p) ==
    {g \in 1..Len(map) : \E k \in 1..Len(map[g].positions) : map[g].positions[k] = p}

\* the grouping as a partition: the sets of positions of the groups
PartitionOf(map) ==
    {{map[g].positions[k] : k \in 1..Len(map[g].positions)} : g \in 1..Len(map)}

Reversed(seq) == [k \in 1..Len(seq) |-> seq[Len(seq) + 1 - k]]

\* render has grouped the grid and issued the requests; blockMap is not
\* written after this state
JustGrouped == pc = "loading" /\ settleOrder = <<>>

\* C12: once the grid is grouped, two non-air voxels are in the same group
\* exactly when their names, stripped of the namespace and of a leading
\* waxed_, are equal and their property sequences are equal; scanning the
\* grid in the opposite order gives the same groups
C12_GroupingKey ==
    JustGrouped =>
        /\ \A groups \in {[p \in NonAirPositions |-> GroupsOf(blockMap, p)]} :
           \A name \in {[p \in NonAirPositions |-> StrippedName(BlockAt(p).name)]} :
           \A properties \in {[p \in NonAirPositions |-> PropertySequence(BlockAt(p))]} :
                \A p, q \in DOMAIN groups :
                    (groups[p] \cap groups[q] # {})
                    <=> (name[p] = name[q] /\ properties[p] = properties[q])
        /\ PartitionOf(CollectBlocks(<<>>, blocks.cells, Reversed(GridScan(blocks.cells))))
                = PartitionOf(blockMap)

\* a block and its waxed alias share a group, and other voxels are in other
\* groups
C12_Witness ==
    /\ JustGrouped
    /\ \E p, q \in NonAirPositions :
            /\ BlockAt(p).name # BlockAt(q).name
            /\ GroupsOf(blockMap, p) = GroupsOf(blockMap, q)
    /\ \E p, q \in NonAirPositions : GroupsOf(blockMap, p) # GroupsOf(blockMap, q)

-----------------------------------------------------------------------------
(* C13 *)

\* when the scan with y outer, x middle, z inner visits the position
ScanRank(p) ==
    p.z + p.x * nbtData.value.Length.value
        + p.y * nbtData.value.Width.value * nbtData.value.Length.value

\* the place of the group a batch was made for
GroupOfBatch(b) == CHOOSE g \in 1..Len(blockMap) : blockMap[g].blockKey = Batches[b].blockKey

\* C13: the groups are in the order in which the scan (y outer, x middle,
\* z inner) first saw them, and each group lists its positions in scan order;
\* the model requests follow the order of the groups, and so do the batches
\* in the scene
C13_FirstSeenOrder ==
    Grouped =>
        /\ \A g \in 1..Len(blockMap) : \A j, k \in 1..Len(blockMap[g].positions) :
                j < k => ScanRank(blockMap[g].positions[j])
                            < ScanRank(blockMap[g].positions[k])
        /\ \A g, h \in 1..Len(blockMap) :
                g < h => ScanRank(blockMap[g].positions[1])
                            < ScanRank(blockMap[h].positions[1])
        /\ Len(modelRequests) = Len(blockMap)
        /\ \A g \in 1..Len(blockMap) : modelRequests[g].blockKey = blockMap[g].blockKey
        /\ \A a, b \in 1..Len(Batches) : a < b => GroupOfBatch(a) <= GroupOfBatch(b)

\* render has returned, with batches of two groups of which the second
\* settled first, and a group of several positions
C13_Witness ==
    /\ Finished
    /\ \E a, b \in 1..Len(Batches) : GroupOfBatch(a) < GroupOfBatch(b)
    /\ \E j, k \in 1..Len(settleOrder) :
            /\ j < k /\ settleOrder[j] > settleOrder[k]
            /\ BatchesOf(blockMap[settleOrder[j]].blockKey) # <<>>
            /\ BatchesOf(blockMap[settleOrder[k]].blockKey) # <<>>
    /\ \E g \in 1..Len(blockMap) : Len(blockMap[g].positions) > 1

-----------------------------------------------------------------------------
(* C14 *)

FailedGroups == {g \in 1..Len(loadedModels) : loadedModels[g].state = "failed"}
LoadedGroups == {g \in 1..Len(loadedModels) : loadedModels[g].state = "loaded"}

\* the groups whose model loaded and holds a mesh
EmittedGroups == {g \in LoadedGroups : Len(loadedModels[g].model.children) > 0}

\* what a group yields from its own model alone
OwnBatches(g) ==
    LET extracted == extractGeometryAndMaterials(loadedModels[g].model)
    IN  GroupMeshes(extracted.geometry, extracted.materials, blockMap[g])

SkippedNames == {renderSkipped[k].blockName : k \in 1..Len(renderSkipped)}

\* when render has returned, a failed group has no batch in the scene and
\* its normalized name is in skippedBlocks, and every group whose model
\* loaded has the batches its own model yields, whatever failed
FailureIsLocal ==
    /\ FailedGroups # {} => pc # "rejected" /\ error = NoError
    /\ Finished =>
        /\ \A g \in FailedGroups :
                /\ BatchesOf(blockMap[g].blockKey) = <<>>
                /\ blockMap[g].blockName \in SkippedNames
        /\ \A g \in EmittedGroups : BatchesOf(blockMap[g].blockKey) = OwnBatches(g)

\* C14: a failed model request never aborts render: nothing is rejected and,
\* once every request has completed or failed, render runs to its end; the
\* failed group contributes nothing and is reported in skippedBlocks, and
\* every other group is emitted as its own model alone determines
C14_FailureDoesNotAbort ==
    /\ []FailureIsLocal
    /\ (pc = "loading" /\ AllSettled(loadedModels) /\ FailedGroups # {}) ~> Finished

\* render has returned; the model of a group failed and a later group, whose
\* model loaded, is in the scene
C14_Witness ==
    /\ Finished
    /\ \E g \in FailedGroups : \E h \in EmittedGroups :
            g < h /\ BatchesOf(blockMap[h].blockKey) # <<>>

-----------------------------------------------------------------------------
(* C15 *)

PendingGroups == {g \in 1..Len(loadedModels) : loadedModels[g].state = "pending"}

ModelsLoadedEvents == SelectSeq(statsEvents, LAMBDA e : e.type = "models:loaded")

\* C15: once render is suspended on the model requests, one request has been
\* issued for every group, in the order of the groups; and as long as one of
\* them has neither completed nor failed, render is still suspended there,
\* no mesh has been created or added to the scene and models:loaded has not
\* been emitted
C15_FanOutFanIn ==
    /\ Grouped =>
        /\ Len(modelRequests) = Len(blockMap)
        /\ Len(loadedModels) = Len(blockMap)
        /\ \A g \in 1..Len(blockMap) :
                modelRequests[g].blockKey = blockMap[g].blockKey
    /\ (Grouped /\ PendingGroups # {}) =>
        /\ pc = "loading"
        /\ scene = <<>>
        /\ meshCount = 0
        /\ geometryCache = {}
        /\ ModelsLoadedEvents = <<>>

\* several groups; the model of one has loaded, with a mesh, while another
\* request is still pending
C15_Witness ==
    /\ pc = "loading"
    /\ Len(blockMap) > 1
    /\ PendingGroups # {}
    /\ EmittedGroups # {}
    /\ scene = <<>>

-----------------------------------------------------------------------------
(* C16 *)

\* what the grid and the outcome of each request determine, with no regard
\* to the order of settling: the batches of the groups whose model loaded,
\* group after group, and the counts summed over these groups
ExpectedUpTo[g \in 0..Len(blockMap)] ==
    IF g = 0
    THEN [batches |-> <<>>, meshCount |-> 0, vertexCount |-> 0]
    ELSE IF g \in EmittedGroups
    THEN LET before == ExpectedUpTo[g - 1]
             own == OwnBatches(g)
         IN  [batches |-> before.batches \o own,
              meshCount |-> before.meshCount + Len(blockMap[g].positions),
              vertexCount |-> before.vertexCount + VerticesOf(own)]
    ELSE ExpectedUpTo[g - 1]

Expected == ExpectedUpTo[Len(blockMap)]

\* the requests have settled in the order of the groups
SettledInOrder ==
    \A i, j \in 1..Len(settleOrder) : i < j => settleOrder[i] < settleOrder[j]

\* C16: when render has returned, the batches in the scene, in their order
\* of addition, and the mesh, vertex and face counts are those determined by
\* the grid and by which requests completed (and with which model), whatever
\* the order in which the requests completed or failed
C16_OrderIndependent ==
    Finished =>
        LET expected == Expected
            finished == statsEvents[Len(statsEvents)]
        IN  /\ Batches = expected.batches
            /\ meshCount = expected.meshCount
            /\ vertexCount = expected.vertexCount
            /\ faceCount = expected.vertexCount
            /\ finished.type = "render:finished"
            /\ finished.data.meshes = expected.meshCount
            /\ finished.data.vertices = expected.vertexCount
            /\ finished.data.faces = Floor3(expected.vertexCount)

\* render has returned after the requests settled out of order: a later
\* group's model loaded before an earlier group's, and both are in the scene
C16_Witness ==
    /\ Finished
    /\ ~SettledInOrder
    /\ \E i, j \in 1..Len(settleOrder) :
            /\ i < j
            /\ settleOrder[i] > settleOrder[j]
            /\ {settleOrder[i], settleOrder[j]} \subseteq EmittedGroups
            /\ BatchesOf(blockMap[settleOrder[i]].blockKey) # <<>>

-----------------------------------------------------------------------------
(* C17 *)

\* the group has a property whose key is facing, axis, half or type
Rotated(g) ==
    \E i \in 1..Len(blockMap[g].properties) :
        blockMap[g].properties[i][1] \in {"facing=", "axis=", "half=", "type="}

CountSmall(g) == Len(blockMap[g].positions) < 5

\* the geometry extracted from the model of a group
BaseGeometry(g) == extractGeometryAndMaterials(loadedModels[g].model).geometry

\* the batches of the group are one mesh per position, in the order of the
\* positions: each has the model's geometry unchanged and is itself placed
\* at its position (half a block higher at most, for type=top)
EmittedIndividually(g) ==
    LET batches == BatchesOf(blockMap[g].blockKey)
        positions == blockMap[g].positions
    IN  /\ Len(batches) = Len(positions)
        /\ \A k \in 1..Len(batches) :
                /\ batches[k].geometry = BaseGeometry(g)
                /\ batches[k].position[1] = Scaled(positions[k].x)
                /\ batches[k].position[2] \in {Scaled(positions[k].y),
                                               Scaled(positions[k].y) + 1}
                /\ batches[k].position[3] = Scaled(positions[k].z)

\* the batches of the group are a single mesh at the origin that is not
\* rotated: the positions are in its geometry
EmittedMerged(g) ==
    LET batches == BatchesOf(blockMap[g].blockKey)
    IN  /\ Len(batches) = 1
        /\ batches[1].position = <<0, 0, 0>>
        /\ batches[1].rotation = <<0, 0, 0>>

\* C17: when render has returned, every group whose model loaded with a
\* mesh is in the scene as one individually transformed mesh per position
\* if it has a facing, axis, half or type property or fewer than 5
\* positions, and as one merged mesh otherwise
C17_IndividualOrMerged ==
    Finished =>
        \A g \in EmittedGroups :
            IF Rotated(g) \/ CountSmall(g)
            THEN EmittedIndividually(g)
            ELSE EmittedMerged(g)

\* render has returned with a merged group of 5 or more positions and a
\* small group in the scene, neither at the origin alone
C17_Witness ==
    /\ Finished
    /\ \E g, h \in EmittedGroups :
            /\ ~Rotated(g) /\ ~CountSmall(g) /\ EmittedMerged(g)
            /\ CountSmall(h) /\ EmittedIndividually(h)
            /\ \E k \in 1..Len(blockMap[h].positions) :
                    BatchesOf(blockMap[h].blockKey)[k].position # <<0, 0, 0>>

-----------------------------------------------------------------------------
(* C18 *)

\* the groups on the merge path: model loaded with a mesh, no rotating
\* property, 5 positions or more
MergedGroups == {g \in EmittedGroups : ~Rotated(g) /\ ~CountSmall(g)}

\* the vertices of the geometry extracted from the group's model
BaseVertices(g) == ItemsOf(BaseGeometry(g).position)

\* a vertex moved by a position of the grid
MovedTo(vertex, p) ==
    <<vertex[1] + Scaled(p.x), vertex[2] + Scaled(p.y), vertex[3] + Scaled(p.z)>>

\* the vertices hold the base vertices once per position of the group, copy
\* after copy in the order of the positions, each moved by its position
OneCopyPerPosition(vertices, g) ==
    LET base == BaseVertices(g)
        positions == blockMap[g].positions
    IN  /\ Len(vertices) = Len(positions) * Len(base)
        /\ \A k \in 1..Len(positions) : \A i \in 1..Len(base) :
                vertices[(k - 1) * Len(base) + i] = MovedTo(base[i], positions[k])

\* C18: when render has returned, every merged group (not rotated, at least
\* 5 positions, model loaded) has exactly one batch in the scene, and the
\* batch holds the base geometry's vertices once per position, each copy
\* translated by its position: positions * base vertex count vertices
C18_OneBatchPerMergedGroup ==
    Finished =>
        \A g \in MergedGroups :
            LET batches == BatchesOf(blockMap[g].blockKey)
            IN  /\ Len(batches) = 1
                /\ OneCopyPerPosition(ItemsOf(batches[1].geometry.position), g)

\* render has returned with a merged group whose base geometry has
\* vertices, next to another group
C18_Witness ==
    /\ Finished
    /\ Len(blockMap) > 1
    /\ \E g \in MergedGroups :
            /\ Len(BaseVertices(g)) > 0
            /\ PositionCount(BatchesOf(blockMap[g].blockKey)[1].geometry)
                    = Len(blockMap[g].positions) * Len(BaseVertices(g))

-----------------------------------------------------------------------------
(* C19 *)

\* the geometries that are merged into a batch of the group, in the order
\* of merging: the model's child geometries, once for an individual mesh
\* and once per position for a merged one.  Each is given with the offset
\* it is moved by: a child after the first by its mesh's position, a copy
\* by its position in the grid.
MergedParts(g) ==
    LET children == loadedModels[g].model.children
        positions == blockMap[g].positions
        copies == IF g \in MergedGroups THEN Len(positions) ELSE 1
        childOf(j) == ((j - 1) % Len(children)) + 1
        copyOf(j) == ((j - 1) \div Len(children)) + 1
        childOffset(c) == IF c = 1 THEN <<0, 0, 0>> ELSE children[c].position
        copyOffset(k) ==
            IF g \in MergedGroups
            THEN <<Scaled(positions[k].x), Scaled(positions[k].y), Scaled(positions[k].z)>>
            ELSE <<0, 0, 0>>
    IN  [j \in 1..(copies * Len(children)) |->
            [geometry |-> children[childOf(j)].geometry,
             offset |-> [d \in 1..3 |->
                            childOffset(childOf(j))[d] + copyOffset(copyOf(j))[d]]]]

\* the number of vertices, and of indices, of the first j parts
VerticesIn(parts, j) ==
    LET sum[k \in 0..j] ==
            IF k = 0 THEN 0 ELSE sum[k - 1] + PositionCount(parts[k].geometry)
    IN  sum[j]

IndicesIn(parts, j) ==
    LET sum[k \in 0..j] ==
            IF k = 0 THEN 0 ELSE sum[k - 1] + Len(ItemsOf(parts[k].geometry.index))
    IN  sum[j]

\* the geometry is the merge of the parts: their vertices one part after
\* the other, and their indices one part after the other, the indices of a
\* part raised by the number of vertices of the parts before it
IsIndexedMergeOf(geometry, parts) ==
    \A vertices \in {ItemsOf(geometry.position)} :
    \A indices \in {ItemsOf(geometry.index)} :
    \A verticesBefore \in {[j \in 1..Len(parts) |-> VerticesIn(parts, j - 1)]} :
    \A indicesBefore \in {[j \in 1..Len(parts) |-> IndicesIn(parts, j - 1)]} :
        /\ Len(vertices) = VerticesIn(parts, Len(parts))
        /\ Len(indices) = IndicesIn(parts, Len(parts))
        /\ \A j \in 1..Len(parts) :
                /\ \A i \in 1..PositionCount(parts[j].geometry) :
                        vertices[verticesBefore[j] + i]
                            = [d \in 1..3 |-> parts[j].geometry.position.v[i][d]
                                                + parts[j].offset[d]]
                /\ \A i \in 1..Len(ItemsOf(parts[j].geometry.index)) :
                        indices[indicesBefore[j] + i]
                            = parts[j].geometry.index.v[i] + verticesBefore[j]
        /\ \A i \in 1..Len(indices) : indices[i] < Len(vertices)

\* the merge of two triangles with the indices [0, 1, 2] each
TwoTrianglesMerged(geometry) ==
    /\ PositionCount(geometry) = 6
    /\ geometry.index = Arr(<<0, 1, 2, 3, 4, 5>>)

\* C19: every batch in the scene is the merge of the indexed geometries it
\* was made from: vertex buffers concatenated in order, index buffers
\* concatenated with each later geometry's indices offset by the number of
\* vertices merged before it, every index smaller than the vertex count;
\* two triangles with the indices [0, 1, 2] give 6 vertices and the indices
\* [0, 1, 2, 3, 4, 5]
C19_IndexedMerge ==
    Finished =>
        \A g \in EmittedGroups :
            \A batches \in {BatchesOf(blockMap[g].blockKey)} :
            \A parts \in {MergedParts(g)} :
                \A k \in 1..Len(batches) :
                    /\ IsIndexedMergeOf(batches[k].geometry, parts)
                    /\ Len(parts) = 2 => TwoTrianglesMerged(batches[k].geometry)

\* render has returned with a mesh merged from exactly two triangles (6
\* vertices, indices 0..5) and a batch merged from more than two
C19_Witness ==
    /\ Finished
    /\ \E g \in EmittedGroups :
            /\ Len(MergedParts(g)) = 2
            /\ TwoTrianglesMerged(BatchesOf(blockMap[g].blockKey)[1].geometry)
    /\ \E g \in MergedGroups :
            /\ Len(MergedParts(g)) > 2
            /\ ItemsOf(BatchesOf(blockMap[g].blockKey)[1].geometry.index) # <<>>

-----------------------------------------------------------------------------
(* C20 *)

\* what processing every group in a single chunk adds and counts
SingleChunk ==
    ProcessChunk([scene |-> <<>>, meshCount |-> 0, vertexCount |-> 0,
                  faceCount |-> 0, geometryCache |-> {}],
                 ModelCache(modelRequests, loadedModels),
                 BlockEntries(blockMap, settleOrder))

\* the number of chunks the loop of line 172 goes through
ChunkCount == (Len(blockMap) + chunkSize - 1) \div chunkSize

ProgressEvents == SelectSeq(statsEvents, LAMBDA e : e.type = "render:progress")

\* C20: whatever the chunk size, when render has returned the batches in
\* the scene, in their order of addition, and the mesh, vertex and face
\* counts are those of processing all groups in a single chunk
C20_ChunkSizeIndependent ==
    Finished =>
        LET single == SingleChunk
        IN  /\ Batches = single.scene
            /\ meshCount = single.meshCount
            /\ vertexCount = single.vertexCount
            /\ faceCount = single.faceCount
            /\ geometryCache = single.geometryCache

\* render has returned after more than one chunk, with a yield between
\* them, and groups of different chunks are in the scene
C20_Witness ==
    /\ Finished
    /\ chunkSize < Len(blockMap)
    /\ Len(ProgressEvents) = ChunkCount
    /\ ChunkCount > 1
    /\ \E g, h \in EmittedGroups :
            /\ (g - 1) \div chunkSize # (h - 1) \div chunkSize
            /\ BatchesOf(blockMap[g].blockKey) # <<>>
            /\ BatchesOf(blockMap[h].blockKey) # <<>>

-----------------------------------------------------------------------------
(* C21 *)

\* the mesh holds the copy of the group's base geometry for the position:
\* every base vertex moved by the position, the mesh itself at the origin
\* (lines 222-226), or the base vertices in a mesh placed at the position
HoldsCopyFor(mesh, g, p) ==
    \A base \in {BaseVertices(g)} :
    \A vertices \in {ItemsOf(mesh.geometry.position)} :
    \A at \in {IF mesh.position = <<0, 0, 0>> THEN p ELSE [x |-> 0, y |-> 0, z |-> 0]} :
        /\ mesh.position \in {<<0, 0, 0>>, <<Scaled(p.x), Scaled(p.y), Scaled(p.z)>>}
        /\ \A i \in 1..Len(base) :
                \E j \in 1..Len(vertices) : vertices[j] = MovedTo(base[i], at)

\* every position of the group is represented in the scene
AllPositionsInScene(g) ==
    \A batches \in {BatchesOf(blockMap[g].blockKey)} :
        \A k \in 1..Len(blockMap[g].positions) :
            \E b \in 1..Len(batches) :
                HoldsCopyFor(batches[b], g, blockMap[g].positions[k])

\* the group's instances are in the scene unmerged: one mesh per position,
\* in the order of the positions, holding one copy of the base geometry
EmittedUnmerged(g) ==
    \A batches \in {BatchesOf(blockMap[g].blockKey)} :
        /\ Len(batches) = Len(blockMap[g].positions)
        /\ \A k \in 1..Len(batches) :
                /\ PositionCount(batches[k].geometry) = Len(BaseVertices(g))
                /\ HoldsCopyFor(batches[k], g, blockMap[g].positions[k])

\* C21: when merging a group's instance geometries fails, in mergeGeometries
\* or inside a pairwise merge step, then after render the group's instances
\* are in the scene unmerged, one per position, and every position of the
\* group is represented
C21_MergeFailureFallsBack ==
    (Finished /\ mergeFault # "none") =>
        \A g \in MergedGroups : EmittedUnmerged(g) /\ AllPositionsInScene(g)

\* the same for a failure in mergeGeometries outside the pairwise step: the
\* catch of lines 528-531 returns null and lines 239-249 add every mesh
C21_OuterFailureFallsBack ==
    (Finished /\ mergeFault = "outer") =>
        \A g \in MergedGroups : EmittedUnmerged(g) /\ AllPositionsInScene(g)

\* render has returned after a pairwise merge step threw: a merged group is
\* one batch that holds a single copy, and a position of the group is not
\* represented
C21_PairwiseFailureDrops ==
    /\ Finished
    /\ mergeFault = "pairwise"
    /\ \E g \in MergedGroups :
            /\ Len(BatchesOf(blockMap[g].blockKey)) = 1
            /\ ~AllPositionsInScene(g)
            /\ meshCount >= Len(blockMap[g].positions)

-----------------------------------------------------------------------------
(* C22 *)

\* the value of the group's property with this key, <<>> when it has none
PropertyOf(g, key) ==
    LET properties == blockMap[g].properties
    IN  IF \E i \in 1..Len(properties) : properties[i][1] = key
        THEN Tail(properties[CHOOSE i \in 1..Len(properties) : properties[i][1] = key])
        ELSE <<>>

\* the group's properties without half
WithoutHalf(g) == SelectSeq(blockMap[g].properties, LAMBDA p : p[1] # "half=")

\* the rotation about the vertical axis that applyTransformations gives a
\* mesh of the group when half is left out
TurnWithoutHalf(g) ==
    applyTransformations(Mesh(<<>>, "", <<>>), 0, 0, 0, WithoutHalf(g)).rotation[2]

\* C22: for the meshes of a group in the scene after render, in quarter
\* turns: with half=top the rotation about the vertical axis is the
\* negation of the one the same properties give without half; facing=north
\* with half=top (and no axis) gives -1 about the vertical axis together
\* with 2 about the x axis; and an absent property changes nothing: no
\* half=top and no axis=z leaves the x rotation 0, no facing the vertical
\* rotation 0, no axis=x the z rotation 0, no type=top the height
C22_FacingHalfSign ==
    Finished =>
        \A g \in EmittedGroups :
        \A batches \in {BatchesOf(blockMap[g].blockKey)} :
        \A k \in 1..Len(batches) :
            Len(batches) = Len(blockMap[g].positions) =>
                LET mesh == batches[k]
                    p == blockMap[g].positions[k]
                    half == PropertyOf(g, "half=")
                    facing == PropertyOf(g, "facing=")
                    axis == PropertyOf(g, "axis=")
                    type == PropertyOf(g, "type=")
                IN  /\ half = <<"top">> => mesh.rotation[2] = 0 - TurnWithoutHalf(g)
                    /\ half # <<"top">> => mesh.rotation[2] = TurnWithoutHalf(g)
                    /\ (facing = <<"north">> /\ half = <<"top">> /\ axis = <<>>) =>
                            mesh.rotation[2] = -1 /\ mesh.rotation[1] = 2
                    /\ (half # <<"top">> /\ axis # <<"z">>) => mesh.rotation[1] = 0
                    /\ facing = <<>> => mesh.rotation[2] = 0
                    /\ axis # <<"x">> => mesh.rotation[3] = 0
                    /\ mesh.position[1] = Scaled(p.x)
                    /\ mesh.position[3] = Scaled(p.z)
                    /\ mesh.position[2] = Scaled(p.y) + (IF type = <<"top">> THEN 1 ELSE 0)

\* render has returned with a mesh for facing=north and half=top, turned by
\* -1 about the vertical axis and by 2 about the x axis
C22_Witness ==
    /\ Finished
    /\ \E g \in EmittedGroups :
            /\ PropertyOf(g, "facing=") = <<"north">>
            /\ PropertyOf(g, "half=") = <<"top">>
            /\ PropertyOf(g, "axis=") = <<>>
            /\ BatchesOf(blockMap[g].blockKey) # <<>>
            /\ BatchesOf(blockMap[g].blockKey)[1].rotation = <<2, -1, 0>>
            /\ TurnWithoutHalf(g) = 1

-----------------------------------------------------------------------------
(* C23 *)

\* render is suspended: on the model requests, or on the timer between chunks
Suspended == pc \in {"loading", "yielded"}

\* C23: while render is suspended, before it has returned, the caller's
\* parent element has no new child and no listener was added to window:
\* only statistics events have been emitted
C23_NoEffectBeforeReturn ==
    Suspended => parentChildren = 0 /\ listeners = 0

\* render is suspended between two chunks and the canvas is already in the
\* parent, the resize listener already on window
C23_EffectsWhileSuspended ==
    /\ pc = "yielded"
    /\ parentChildren = 1
    /\ listeners = 1
    /\ Len(statsEvents) > 0

-----------------------------------------------------------------------------
(* C24 *)

\* the types of the events emitted so far, in order
EventTypes == [k \in 1..Len(statsEvents) |-> statsEvents[k].type]

\* the place of an event type in a run of render
StageOf(type) ==
    CASE type = "render:start" -> 1
      [] type = "blocks:collected" -> 2
      [] type = "models:loaded" -> 3
      [] type = "render:progress" -> 4
      [] type = "render:complete" -> 5
      [] type = "render:finished" -> 6
      [] OTHER -> 0

CountOf(type) == Cardinality({k \in 1..Len(statsEvents) : statsEvents[k].type = type})

\* C24: the events emitted so far are, in this order, render:start,
\* blocks:collected, models:loaded, any number of render:progress,
\* render:complete, render:finished, none of the others twice and none
\* without the ones before it; blocks:collected is emitted only once the
\* grid is grouped and reports the groups, models:loaded only once every
\* request has settled; a run that has completed has emitted each of the
\* five others exactly once
C24_EventOrder ==
    \A types \in {EventTypes} :
        /\ \A k \in 1..Len(types) : StageOf(types[k]) > 0
        /\ Len(types) > 0 => types[1] = "render:start"
        /\ \A k \in 1..(Len(types) - 1) :
                \/ StageOf(types[k + 1]) = StageOf(types[k]) + 1
                \/ types[k] = "render:progress" /\ types[k + 1] = "render:progress"
                \/ types[k] = "models:loaded" /\ types[k + 1] = "render:complete"
        /\ CountOf("blocks:collected") > 0 =>
                /\ Grouped
                /\ statsEvents[2].data.uniqueBlockTypes = Len(blockMap)
        /\ CountOf("models:loaded") > 0 => PendingGroups = {} /\ Grouped
        /\ Finished =>
                /\ Len(types) >= 5
                /\ types[Len(types)] = "render:finished"
                /\ \A type \in {"render:start", "blocks:collected", "models:loaded",
                                 "render:complete", "render:finished"} :
                        CountOf(type) = 1

\* render has completed with several render:progress events between
\* models:loaded and render:complete
C24_Witness ==
    /\ Finished
    /\ CountOf("render:progress") > 1
    /\ EventTypes[3] = "models:loaded"
    /\ EventTypes[4] = "render:progress"
    /\ EventTypes[Len(EventTypes) - 1] = "render:complete"

-----------------------------------------------------------------------------
(* C25 *)

\* every position of the group is in the scene: its batches hold the base
\* geometry's vertices once per position
FullyEmitted(g) ==
    \A batches \in {BatchesOf(blockMap[g].blockKey)} :
        /\ g \in EmittedGroups
        /\ batches # <<>>
        /\ VerticesOf(batches) = Len(blockMap[g].positions) * Len(BaseVertices(g))

\* the sum of the counts of skippedBlocks
SkippedTotal(skipped) ==
    LET sum[k \in 0..Len(skipped)] ==
            IF k = 0 THEN 0 ELSE sum[k - 1] + skipped[k].count
    IN  sum[Len(skipped)]

\* the failed count of models:loaded is the sum of the counts of the
\* skippedBlocks it reports, and the number of requests that failed
FailedCountMatches ==
    \A k \in 1..Len(statsEvents) :
        statsEvents[k].type = "models:loaded" =>
            /\ statsEvents[k].data.failed = SkippedTotal(statsEvents[k].data.skippedBlocks)
            /\ statsEvents[k].data.failed = Cardinality(FailedGroups)

\* C25: after render has completed, every group is either emitted, with
\* all its positions in the scene, or its normalized name is a key of
\* skippedBlocks with a count, also when its model loaded without any
\* geometry; and the failed count of models:loaded is the sum of the counts
\* of skippedBlocks
C25_SkipAccounting ==
    Finished =>
        /\ \A g \in 1..Len(blockMap) :
                \/ FullyEmitted(g)
                \/ \E k \in 1..Len(renderSkipped) :
                        /\ renderSkipped[k].blockName = blockMap[g].blockName
                        /\ renderSkipped[k].count > 0
        /\ FailedCountMatches

\* the second half of C25 alone: the failed count of models:loaded
C25_FailedCount == Finished => FailedCountMatches

\* render has completed; the model of a group loaded without geometry, the
\* group has no batch in the scene and its name is not in skippedBlocks
C25_SilentlyDropped ==
    /\ Finished
    /\ \E g \in LoadedGroups :
            /\ Len(loadedModels[g].model.children) = 0
            /\ BatchesOf(blockMap[g].blockKey) = <<>>
            /\ blockMap[g].blockName \notin SkippedNames
    /\ FailedGroups # {}

-----------------------------------------------------------------------------
(* C26 *)

\* how many times the position occurs in the position list of the group
Occurrences(map, g, p) ==
    Cardinality({k \in 1..Len(map[g].positions) : map[g].positions[k] = p})

\* the data of the first event of this type
DataOf(type) ==
    statsEvents[CHOOSE k \in 1..Len(statsEvents) : statsEvents[k].type = type].data

\* C26: once the grid is grouped, every non-air coordinate of the grid is in
\* the position list of exactly one group, exactly once; the lists hold
\* nothing else and none is empty; and totalBlocks of blocks:collected is
\* blockCount of render:start
C26_GroupingPartitions ==
    JustGrouped =>
        /\ \A map \in {blockMap} :
                /\ \A p \in NonAirPositions :
                        /\ Cardinality(GroupsOf(map, p)) = 1
                        /\ \A g \in GroupsOf(map, p) : Occurrences(map, g, p) = 1
                /\ \A g \in 1..Len(map) :
                        /\ Len(map[g].positions) > 0
                        /\ \A k \in 1..Len(map[g].positions) :
                                map[g].positions[k] \in NonAirPositions
        /\ DataOf("blocks:collected").totalBlocks = DataOf("render:start").blockCount
        /\ DataOf("render:start").blockCount = Cardinality(NonAirPositions)

\* a grid with air and with two groups, one of them of several positions,
\* has been grouped
C26_Witness ==
    /\ JustGrouped
    /\ NonAirPositions # GridPositions
    /\ Len(blockMap) > 1
    /\ \E g \in 1..Len(blockMap) : Len(blockMap[g].positions) > 1
    /\ DataOf("blocks:collected").totalBlocks > 2

-----------------------------------------------------------------------------
(* C27 *)

\* every request has completed or failed
RequestsSettled == pc = "loading" /\ AllSettled(loadedModels)

\* the progress events so far: processed grows strictly from above 0, never
\* beyond the number of groups, and the counts do not fall; render is
\* suspended on the timer exactly when the last event is a progress event;
\* when render has returned there is one event per chunk, the last of them
\* with processed equal to the number of groups
ProgressWellFormed ==
    \A events \in {ProgressEvents} :
        /\ \A k \in 1..Len(events) :
                /\ events[k].data.total = Len(blockMap)
                /\ events[k].data.processed <= Len(blockMap)
                /\ events[k].data.processed > (IF k = 1 THEN 0
                                                ELSE events[k - 1].data.processed)
                /\ k > 1 =>
                        /\ events[k].data.meshes >= events[k - 1].data.meshes
                        /\ events[k].data.vertices >= events[k - 1].data.vertices
                        /\ events[k].data.faces >= events[k - 1].data.faces
        /\ Len(events) <= ChunkCount
        /\ (pc = "yielded")
                <=> (statsEvents # <<>>
                     /\ statsEvents[Len(statsEvents)].type = "render:progress")
        /\ Finished =>
                /\ Len(events) = ChunkCount
                /\ chunkSize = CHUNK_SIZE =>
                        Len(events) = (Len(blockMap) + 49) \div 50
                /\ Len(blockMap) = 0 => events = <<>>
                /\ Len(blockMap) > 0 =>
                        events[Len(events)].data.processed = Len(blockMap)

\* no step lowers a running count
CountsGrow ==
    /\ meshCount' >= meshCount
    /\ vertexCount' >= vertexCount
    /\ faceCount' >= faceCount

\* C27: once every model request has completed or failed, render runs to
\* its end and emits render:finished; it emits one render:progress event per
\* chunk of 50 groups, none without a group, and suspends on the timer once
\* after each; processed grows strictly and is the number of groups in the
\* last event; the running mesh, vertex and face counts never fall
C27_Terminates ==
    /\ RequestsSettled ~> (Finished /\ statsEvents[Len(statsEvents)].type = "render:finished")
    /\ []ProgressWellFormed
    /\ [][CountsGrow]_vars

\* render has returned after several chunks; processed and the mesh count
\* grew from one progress event to the next
C27_Witness ==
    /\ Finished
    /\ ChunkCount > 1
    /\ Len(ProgressEvents) = ChunkCount
    /\ ProgressEvents[1].data.processed < ProgressEvents[2].data.processed
    /\ ProgressEvents[1].data.meshes < ProgressEvents[2].data.meshes
    /\ ProgressEvents[Len(ProgressEvents)].data.processed = Len(blockMap)

\* render has returned from a grid of five groups in one chunk of 50
C27_OneChunkOfFifty ==
    /\ Finished
    /\ chunkSize = CHUNK_SIZE
    /\ Len(blockMap) > 1
    /\ Len(ProgressEvents) = 1

=============================================================================
